---- MODULE Spec2Model ----
(***************************************************************************)
(* A model of the YouTube transcript service (src/index.js, the transcript *)
(* fetcher src/unnamed/part_003 and the yt-dlp adapter                     *)
(* src/fabric-youtube.js).                                                 *)
(*                                                                         *)
(* Every HTTP request is a process held in a request slot.  Its pc names   *)
(* the asynchronous operation the handler is awaiting; one action is the   *)
(* completion of that operation together with all the synchronous code     *)
(* that follows it up to the next await (or up to the response).  The      *)
(* three Firestore collections are the shared state.  The outcome of every *)
(* collaborator call (ytdl-core, yt-dlp, the caption libraries, axios, the *)
(* model endpoint, Firestore set) is chosen nondeterministically.          *)
(*                                                                         *)
(* A string is a sequence of symbols, so '' is <<>> and JavaScript         *)
(* truthiness of a string is "is not <<>>".                                *)
(***************************************************************************)
EXTENDS Integers, Sequences, FiniteSets, TLC

\* ------------------------------------------------------------------ bounds
\* Request slots that may be in flight at the same time.
MaxReq == 2
\* The number of requests the server receives in one exploration.
MaxCalls == 3
Reqs == 1..MaxReq
\* How many distinct texts the model endpoint may answer with.
MaxModelTexts == 2

Videos == {"vidA"}

\* ------------------------------------------------------------ strings, JS
NoLang == <<>>
en == <<"e", "n">>
enUS == <<"e", "n", "-", "U", "S">>
es == <<"e", "s">>
fr == <<"f", "r">>

\* String.prototype.startsWith
StartsWith(s, p) == Len(p) <= Len(s) /\ SubSeq(s, 1, Len(p)) = p

\* JavaScript truthiness of a string (or of undefined, modelled as '').
Truthy(s) == s # <<>>

\* Symbols: the blank that join(' ') inserts, and a whitespace character.
SP == <<"sp">>
WS == <<"ws">>

\* Array.prototype.join(' ') over an array of strings.
RECURSIVE JoinSp(_)
JoinSp(texts) ==
  IF Len(texts) = 0 THEN <<>>
  ELSE IF Len(texts) = 1 THEN texts[1]
  ELSE texts[1] \o <<SP>> \o JoinSp(Tail(texts))

\* Array.prototype.join('') over an array of strings.
RECURSIVE Concat(_)
Concat(texts) == IF Len(texts) = 0 THEN <<>> ELSE texts[1] \o Concat(Tail(texts))

\* String.prototype.trim: whitespace symbols are dropped at both ends.
RECURSIVE TrimLeft(_)
TrimLeft(s) == IF Len(s) > 0 /\ s[1] = WS THEN TrimLeft(Tail(s)) ELSE s
RECURSIVE TrimRight(_)
TrimRight(s) ==
  IF Len(s) > 0 /\ s[Len(s)] = WS THEN TrimRight(SubSeq(s, 1, Len(s) - 1)) ELSE s
Trim(s) == TrimRight(TrimLeft(s))

\* Array.prototype.map / filter / find / findIndex on sequences.
MapSeq(f(_), s) == [i \in 1..Len(s) |-> f(s[i])]
RECURSIVE FilterSeq(_, _)
FilterSeq(keep(_), s) ==
  IF Len(s) = 0 THEN <<>>
  ELSE IF keep(s[1]) THEN <<s[1]>> \o FilterSeq(keep, Tail(s))
  ELSE FilterSeq(keep, Tail(s))
\* Index of the first element satisfying test, 0 when there is none.
FindIndex(test(_), s) ==
  IF \E i \in 1..Len(s) : test(s[i])
  THEN CHOOSE i \in 1..Len(s) : test(s[i]) /\ \A j \in 1..(i - 1) : ~test(s[j])
  ELSE 0

\* ------------------------------------------------------- the video source
\* A caption track of player_response...captionTracks.  A track without a
\* languageCode carries '' (the handlers test it with ?. and truthiness).
Track(code, kind) == [languageCode |-> code, kind |-> kind]

TrackLists ==
  { <<>>,
    << Track(es, "manual"), Track(enUS, "asr"), Track(en, "manual") >>,
    << Track(es, "manual"), Track(enUS, "asr") >>,
    << Track(enUS, "manual") >>,
    << Track(NoLang, "asr") >> }

TrackCodes(tracks) == { tracks[i].languageCode : i \in 1..Len(tracks) }

Title(v) == << <<"title", v>> >>
Keywords(v) == << <<"kw", v>> >>
\* videoDetails.lengthSeconds of the video.
LengthSeconds(v) == IF v = "vidA" THEN 125 ELSE 59
\* Variant of Duration: the minutes are rounded up.
DurationUp(v) == (LengthSeconds(v) + 59) \div 60
\* Math.floor(videoInfo.videoDetails.lengthSeconds / 60)
Duration(v) == LengthSeconds(v) \div 60

\* The caption content of video v in language l as source src delivers it.
Cap(src, v, l) == <<src, v>> \o l
Line(start, dur, text) == [start |-> start, dur |-> dur, text |-> text]
Texts(lines) == MapSeq(LAMBDA ln : ln.text, lines)

\* ----------------------------------------------------------------- errors
\* A thrown Error: its message and err.response?.status (0 when absent).
Err(msg, status) == [message |-> msg, status |-> status]
NoErr == Err("", 0)

\* What TranscriptAPI.getTranscript may throw.
ApiErrors ==
  { Err("Video unavailable", 0), Err("Network Error", 0),
    Err("Request failed with status code 401", 401) }
\* What ytdl.getBasicInfo may throw.
InfoErrors == { Err("This is a private video", 0), Err("Video unavailable", 0) }
\* What axios.get of the signed caption URL may throw.
HttpErrors == { Err("Request failed with status code 403", 403), Err("socket hang up", 0) }
TypeErr == Err("Cannot read properties of null (reading '1')", 0)

\* /video unavailable|captions disabled|empty/.test(msg.toLowerCase())
LegacyRecognised(msg) ==
  msg \in { "empty", "Video unavailable", "Captions disabled" }
\* /no captiontracks|captions|transcript/i.test(message)
MentionsCaptions(msg) ==
  msg \in { "No captionTracks available to scrape.", "Captions disabled",
            "Manual scrape returned empty transcript.",
            "No captions available in the requested language" }
\* /missing app check token/i.test(message)
MentionsAppCheck(msg) == msg \in { "Missing App Check token" }
\* err.message.includes('private video')
MentionsPrivate(msg) == msg \in { "This is a private video" }

\* ---------------------------------------------------------------- parsers
\* A response body of the signed caption URL in the legacy XML format: the
\* <text start= dur=> elements it holds; XmlOther is a non-empty body without
\* such elements (an HTML page, a JSON document).
XmlBody(entries) == [kind |-> "xml", entries |-> entries]
XmlOther == [kind |-> "other", entries |-> <<>>]

\* parseTranscriptXml: one line per <text> element, the text taken as it is;
\* a chunk without start= or dur= makes match(...)[1] throw a TypeError.
parseTranscriptXml(xml) ==
  IF xml.kind = "xml"
  THEN [threw |-> FALSE,
        lines |-> MapSeq(LAMBDA e : Line(e.start, e.dur, e.text), xml.entries)]
  ELSE [threw |-> TRUE, lines |-> <<>>]

\* A json3 caption payload: its events, each with its segs array or without.
Event(tStartMs, dDurationMs, segs) ==
  [tStartMs |-> tStartMs, dDurationMs |-> dDurationMs, hasSegs |-> TRUE, segs |-> segs]
NoSegsEvent(tStartMs, dDurationMs) ==
  [tStartMs |-> tStartMs, dDurationMs |-> dDurationMs, hasSegs |-> FALSE, segs |-> <<>>]

\* Times are held in thousandths of a second, so that (ms || 0) / 1000 is exact.
Json3Line(event) ==
  Line(event.tStartMs, event.dDurationMs, Trim(Concat(event.segs)))

\* parseTranscriptJson3: events with a segs array, their segments joined and
\* trimmed, lines with an empty text dropped.
parseTranscriptJson3(events) ==
  FilterSeq(LAMBDA ln : Truthy(ln.text),
            MapSeq(Json3Line, FilterSeq(LAMBDA e : e.hasSegs, events)))

\* ---------------------------------------------- the yt-dlp adapter (fabric)
\* A cue markup tag such as <c> or <00:00:01.000>.
TAG == <<"tag">>
VttLine(kind, text) == [kind |-> kind, text |-> text]

\* removeVttTags: text.replace(/<[^>]*>/g, '')
removeVttTags(text) == FilterSeq(LAMBDA c : c # TAG, text)

\* cleanVttContent: header, NOTE/STYLE/Kind:/Language:, cue-timing, counter and
\* blank lines are skipped, cue markup is stripped, what is left is joined.
VttSkipped(line) == line.kind # "text" \/ Trim(line.text) = <<>>
cleanVttContent(content) ==
  JoinSp(FilterSeq(Truthy,
           MapSeq(LAMBDA l : removeVttTags(Trim(l.text)),
                  FilterSeq(LAMBDA l : ~VttSkipped(l), content))))

\* A subtitle file of the temporary directory: missing, unparsable, or read.
NoFile == [file |-> "none", content |-> <<>>]
Corrupt == [file |-> "corrupt", content |-> <<>>]
File(content) == [file |-> "ok", content |-> content]
\* What a run of yt-dlp leaves behind: its exit and the subtitle files in the
\* temporary directory.
YtDlpRun(exit, json3, vtt) == [exit |-> exit, json3 |-> json3, vtt |-> vtt]

Json3Files(v, l) ==
  { NoFile, Corrupt,
    File(<< Event(0, 2000, << <<WS>> >>), NoSegsEvent(500, 1500) >>),
    File(<< Event(0, 2000, << <<Cap("json3", v, l)>>, <<WS>> >>),
            Event(2000, 1500, << <<WS>> >>),
            Event(3500, 1000, << <<Cap("json3b", v, l)>> >>) >>) }
VttFiles(v, l) ==
  { NoFile,
    File(<< VttLine("WEBVTT", <<>>), VttLine("Kind:", <<>>), VttLine("blank", <<>>) >>),
    File(<< VttLine("WEBVTT", <<>>), VttLine("-->", <<>>),
            VttLine("text", <<TAG, Cap("vtt", v, l), TAG>>),
            VttLine("-->", <<>>), VttLine("text", <<TAG>>) >>) }
YtDlpRuns(v, l) ==
  { YtDlpRun("error", NoFile, NoFile) } \cup
  { YtDlpRun("ok", j, w) : j \in Json3Files(v, l), w \in VttFiles(v, l) }

\* fabricFetchTranscript after the subprocess has ended: throws when yt-dlp
\* failed, when the json3 file does not parse, or when no file was written;
\* returns the joined json3 lines when there are any, else the cleaned VTT.
FabricThrow == [threw |-> TRUE, text |-> <<>>]
FabricReturn(text) == [threw |-> FALSE, text |-> text]
fabricFetchTranscript(run) ==
  IF run.exit # "ok" THEN FabricThrow
  ELSE IF run.json3 = Corrupt THEN FabricThrow
  ELSE IF run.json3 # NoFile /\ Len(parseTranscriptJson3(run.json3.content)) > 0
    THEN FabricReturn(JoinSp(Texts(parseTranscriptJson3(run.json3.content))))
  ELSE IF run.vtt # NoFile THEN FabricReturn(cleanVttContent(run.vtt.content))
  ELSE FabricThrow

\* ------------------------------------------------- the caption libraries
\* Lines as youtube-captions-scraper (getSubtitles) and youtube-transcript-api
\* (TranscriptAPI.getTranscript) return them for a video and a language.
SubsLines(v, l) ==
  << Line(0, 2000, <<Cap("subs", v, l)>>), Line(2000, 1500, <<Cap("subs2", v, l)>>) >>
ApiLines(v, l) ==
  << Line(0, 2000, <<Cap("api", v, l)>>), Line(2000, 1500, <<Cap("api2", v, l)>>) >>

\* Bodies the signed caption URL of track l may answer with: nothing, a page
\* that is no caption document, captions, captions whose only element is empty.
XmlBodies(v, l) ==
  { XmlBody(<<>>), XmlOther,
    XmlBody(<< Line(0, 2000, <<Cap("xml", v, l)>>), Line(2000, 1500, <<Cap("xml2", v, l)>>) >>),
    XmlBody(<< Line(0, 2000, <<>>) >>) }
Json3Bodies(v, l) ==
  { <<>>,
    << Event(0, 2000, << <<WS>> >>) >>,
    << Event(0, 2000, << <<Cap("j3", v, l)>> >>), NoSegsEvent(2000, 1500) >> }

\* ------------------------------------------------------------------ state
VARIABLES
  tmpDirs,       \* the temporary directories of the yt-dlp adapter on disk
  captions,      \* whether player_response of the video has a captions section
  videoTracks,   \* the caption tracks ytdl.getBasicInfo reports per video
  transcripts,   \* Firestore collection 'transcripts', by videoID
  summaries,     \* Firestore collection 'summaries', by videoID
  multilingual,  \* Firestore collection 'transcripts-multilingual', by videoID
  req,           \* the request slots
  answered,      \* history: <<endpoint, videoID, usable>> of the smart-transcript* requests answered
  calls          \* the number of requests received so far

vars == <<tmpDirs, captions, videoTracks, transcripts, summaries, multilingual, req, answered, calls>>

Absent == [exists |-> FALSE]

\* The directories tmp.dir has made: held by the adapter call of a request, or
\* handed to cleanup() and not yet removed from the disk.
NoTmpDirs == [held |-> {}, removing |-> 0]

\* URLs a client may send: one per video, one that holds no video id, none.
BadUrl == "bad"
NoUrl == "missing"
Urls == Videos \cup {BadUrl, NoUrl}

NoData == [none |-> TRUE]
NoBody == [message |-> "", error |-> "", data |-> NoData]
IdleReq ==
  [ ep |-> "idle", url |-> NoUrl, vid |-> NoUrl, lang |-> NoLang, model |-> "",
    pc |-> "idle", sel |-> NoLang, ftLang |-> NoLang, track |-> NoLang,
    given |-> <<>>, text |-> <<>>, tags |-> <<>>, snap |-> Absent, meta |-> Absent, tries |-> 0,
    trace |-> <<>>, ftTrace |-> <<>>, hit |-> FALSE, prior |-> "none",
    xml |-> "none", lines |-> <<>>, json |-> "none", jsonLines |-> <<>>,
    attempts |-> <<>>, delays |-> <<>>, wrote |-> {}, storeFailed |-> FALSE, infoErr |-> "",
    status |-> 0, body |-> NoBody ]

\* res.status(n).json(body): the response is sent and the handler is over.
Respond(q, status, body) == [q EXCEPT !.pc = "done", !.status = status, !.body = body]
Msg(text) == [message |-> text, error |-> "", data |-> NoData]
ErrBody(text) == [message |-> "", error |-> text, data |-> NoData]
Data(d) == [message |-> "", error |-> "", data |-> d]

\* A Firestore get or set of the request threw; a set of the request was done.
StoreFailed(q) == [q EXCEPT !.storeFailed = TRUE]
Wrote(q, collection) == [q EXCEPT !.wrote = @ \cup { collection }]

\* A collaborator call is recorded when it is issued and again when it ends.
Invoke(q, ad) == [q EXCEPT !.trace = Append(@, [ad |-> ad, res |-> "pending"])]
\* Variant of Complete: the call is not awaited, it stays in flight.
NotAwaited(q, res) == q
\* The awaited call, the last one started, has returned or thrown.
Complete(q, res) == [q EXCEPT !.trace = [@ EXCEPT ![Len(@)].res = res]]
Invoked(q, ad) == \E i \in 1..Len(q.trace) : q.trace[i].ad = ad
\* ytdl.getBasicInfo(url), called by a handler, has returned or thrown out.
InfoDone(q, out) ==
  [Complete(q, IF out.message = "" THEN "ok" ELSE "fail") EXCEPT !.infoErr = out.message]

\* ------------------------- fabricFetchTranscript and its temporary directory
\* tmp.dir({ unsafeCleanup: true }) has made the directory of request r's call.
MakeDir(dirs, r) == [dirs EXCEPT !.held = @ \cup { r }]
\* Variant of cleanup: the directory is left as it is.
cleanupSkipped(dirs, r) == dirs

\* finally { cleanup() }: the removal is started; its promise is not awaited.
cleanup(dirs, r) == [held |-> dirs.held \ { r }, removing |-> dirs.removing + 1]

\* Every result a call of fabricFetchTranscript(v, l) may end with, for each
\* video and each language the adapter is called with.
FabricTable ==
  [v \in Videos, l \in { NoLang, en, enUS, es, fr } |->
     { FabricThrow } \cup { fabricFetchTranscript(run) : run \in YtDlpRuns(v, l) }]
FabricResults(v, l) == FabricTable[v, l]

\* The call's first await: tmp.dir has made the directory and yt-dlp is started.
Fabric_Dir(r) ==
  /\ req[r].pc = "fabric"
  /\ tmpDirs' = MakeDir(tmpDirs, r)
  /\ req' = [req EXCEPT ![r].pc = "ytdlp"]
  /\ UNCHANGED <<captions, videoTracks, transcripts, summaries, multilingual, answered, calls>>

\* The call of request r ends with result out: either tmp.dir threw and there
\* is no directory, or the subprocess has ended, the files were read and the
\* finally block has called cleanup().
FabricEnds(r, out) ==
  \/ /\ req[r].pc = "fabric" /\ out = FabricThrow
     /\ UNCHANGED tmpDirs
  \/ /\ req[r].pc = "ytdlp"
     /\ out \in FabricResults(req[r].vid, req[r].sel)
     /\ tmpDirs' = cleanup(tmpDirs, r)

\* The removal that a cleanup() call started is done: the directory is gone.
Fabric_Removed ==
  /\ tmpDirs.removing > 0
  /\ tmpDirs' = [tmpDirs EXCEPT !.removing = @ - 1]
  /\ UNCHANGED <<captions, videoTracks, transcripts, summaries, multilingual, req, answered, calls>>

\* execFile('yt-dlp', args, callback) is given no timeout and no signal: when
\* the tool does not exit, the callback is never called and the promise the
\* adapter awaits stays pending.
Fabric_Hangs(r) ==
  /\ req[r].pc = "ytdlp"
  /\ req' = [req EXCEPT ![r].pc = "hung"]
  /\ UNCHANGED <<tmpDirs, captions, videoTracks, transcripts, summaries, multilingual, answered, calls>>

\* ------------------------------------- fetchTranscript (the scrape adapter)
\* One caption source of fetchTranscript was asked and answered.
Src(q, src, phase, res) ==
  [q EXCEPT !.ftTrace = Append(@, [src |-> src, phase |-> phase, res |-> res])]

\* fetchTranscript(videoID, language) is called: fetchTranscriptPrimary starts
\* with the library.
CallFetchTranscript(q, language) ==
  [Invoke(q, "fetchTranscript") EXCEPT !.pc = "p_lib", !.ftLang = language, !.ftTrace = <<>>,
                                       !.xml = "none", !.lines = <<>>,
                                       !.json = "none", !.jsonLines = <<>>]

\* GET /api/transcript once fetchTranscript has returned or thrown.
ApiAnswer(q, threw, lines, err) ==
  IF threw THEN
    IF err.status = 401 \/ MentionsAppCheck(err.message)
      THEN Respond(q, 404, ErrBody("No captions found"))
    ELSE IF MentionsCaptions(err.message) THEN Respond(q, 404, ErrBody(err.message))
    ELSE Respond(q, 500, ErrBody("Failed to fetch transcript"))
  ELSE IF Len(lines) = 0 THEN Respond(q, 404, ErrBody("No captions found"))
  ELSE Respond([q EXCEPT !.text = JoinSp(Texts(lines))], 200,
               Data([videoId |-> q.vid, lang |-> q.ftLang, captions |-> lines]))

\* POST /smart-transcript-v2 once fetchTranscript has returned or thrown: the
\* lines are joined, a failure is logged, and the record is saved either way.
V2AfterScrape(q, threw, lines) ==
  [q EXCEPT !.text = IF threw THEN q.text ELSE JoinSp(Texts(lines)), !.pc = "set"]

\* lines.map(item => ({ start, end: item.start + item.dur, text }))
Custom(lines) ==
  MapSeq(LAMBDA item : [start |-> item.start, end |-> item.start + item.dur, text |-> item.text],
         lines)
\* captionTracks.reduce(...): every language code of the video is a key, and
\* the value under each key is made from the one array `lines`.
TrTranscripts(tracks, lines) ==
  [code \in TrackCodes(tracks) |-> [custom |-> Custom(lines)]]

\* POST /transcript once fetchTranscript has returned or thrown: the lines
\* are reported under every language code of the video, a throw is the 500
\* of the outer catch.
TrAnswer(q, threw, lines) ==
  IF threw THEN Respond(q, 500, Msg("An error occurred while fetching the transcript."))
  ELSE Respond([q EXCEPT !.text = JoinSp(Texts(lines))], 200,
               Data([videoID |-> q.vid,
                     language_code |-> MapSeq(LAMBDA t : t.languageCode, videoTracks[q.vid]),
                     transcripts |-> TrTranscripts(videoTracks[q.vid], lines)]))

\* The code that awaits fetchTranscript resumes.
AfterFetchTranscript(q, threw, lines, err) ==
  LET d == Complete(q, IF threw THEN "fail" ELSE "ok") IN
  IF q.ep = "api" THEN ApiAnswer(d, threw, lines, err)
  ELSE IF q.ep = "tr" THEN TrAnswer(d, threw, lines)
  ELSE V2AfterScrape(d, threw, lines)

FTReturn(q, lines) == AfterFetchTranscript(q, FALSE, lines, NoErr)
FTThrow(q, err) == AfterFetchTranscript(q, TRUE, <<>>, err)

\* fetchTranscript's catch: whatever fetchTranscriptPrimary threw, the legacy
\* fetcher runs next, and it starts with the library again.
PrimaryThrow(q) == [q EXCEPT !.pc = "l_lib"]

\* tracks.find(t => t.languageCode === language) || tracks[0]
ScrapeTrack(tracks, language) ==
  LET i == FindIndex(LAMBDA t : t.languageCode = language, tracks)
  IN  IF i > 0 THEN tracks[i] ELSE tracks[1]

\* What TranscriptAPI.getTranscript(videoID, language) may do: return lines,
\* return nothing (the caller throws 'empty'), or throw.
ApiOutcomes(v, l) ==
  (IF v \in Videos
     THEN { [lines |-> ApiLines(v, l), err |-> NoErr], [lines |-> <<>>, err |-> Err("empty", 0)] }
   ELSE {})
  \cup { [lines |-> <<>>, err |-> e] : e \in ApiErrors }

\* fetchTranscriptPrimary, step 1: every library failure falls through to the
\* manual scrape.
FT_PrimaryLib(r) ==
  /\ req[r].pc = "p_lib"
  /\ \E out \in ApiOutcomes(req[r].vid, req[r].ftLang) :
       LET ok == Len(out.lines) > 0
           q == Src(req[r], "TranscriptAPI", "primary", IF ok THEN "ok" ELSE "fail")
       IN  req' = [req EXCEPT ![r] =
                     IF ok THEN FTReturn(q, out.lines) ELSE [q EXCEPT !.pc = "p_info"]]
  /\ UNCHANGED <<tmpDirs, captions, videoTracks, transcripts, summaries, multilingual, answered, calls>>

\* fetchTranscriptPrimary, step 2: ytdl.getBasicInfo and the track selection.
FT_PrimaryInfo(r) ==
  /\ req[r].pc = "p_info"
  /\ \/ \E e \in InfoErrors :
          req' = [req EXCEPT ![r] = PrimaryThrow(Src(req[r], "getBasicInfo", "primary", "fail"))]
     \/ /\ req[r].vid \in Videos
        /\ LET tracks == videoTracks[req[r].vid]
               q == Src(req[r], "getBasicInfo", "primary", "ok")
           IN  req' = [req EXCEPT ![r] =
                      IF Len(tracks) = 0 THEN PrimaryThrow(q)
                      ELSE [q EXCEPT !.pc = "p_get",
                                     !.track = ScrapeTrack(tracks, q.ftLang).languageCode]]
  /\ UNCHANGED <<tmpDirs, captions, videoTracks, transcripts, summaries, multilingual, answered, calls>>

\* Variant of RetryJson: the json3 request is made whatever the XML gave.
RetryAlways(lines) == TRUE
\* if (!lines.length) { ... json3 ... }
RetryJson(lines) == Len(lines) = 0

\* fetchTranscriptPrimary, step 3: the signed URL is fetched and parsed as XML
\* into `lines`; zero lines lead to the json3 retry.
FT_PrimaryGet(r) ==
  /\ req[r].pc = "p_get"
  /\ \/ \E e \in HttpErrors :
          req' = [req EXCEPT ![r] = PrimaryThrow(Src(req[r], "signedUrl", "primary", "fail"))]
     \/ \E xml \in XmlBodies(req[r].vid, req[r].track) :
          LET parsed == parseTranscriptXml(xml)
              q == [Src(req[r], "signedUrl", "primary", "ok")
                      EXCEPT !.xml = IF parsed.threw THEN "threw" ELSE "parsed",
                             !.lines = parsed.lines]
          IN  req' = [req EXCEPT ![r] =
                        IF parsed.threw THEN PrimaryThrow(q)
                        ELSE IF RetryJson(parsed.lines) THEN [q EXCEPT !.pc = "p_json"]
                        ELSE FTReturn(q, parsed.lines)]
  /\ UNCHANGED <<tmpDirs, captions, videoTracks, transcripts, summaries, multilingual, answered, calls>>

\* if (!lines.length) throw new Error('Manual scrape returned empty
\* transcript.'); return lines;
PrimaryEnd(q) == IF Len(q.lines) = 0 THEN PrimaryThrow(q) ELSE FTReturn(q, q.lines)

\* fetchTranscriptPrimary, step 4: the json3 retry; its failure is caught and
\* logged, and without json3 lines the XML result `lines` stands.
FT_PrimaryJson(r) ==
  /\ req[r].pc = "p_json"
  /\ \/ \E e \in HttpErrors :
          req' = [req EXCEPT ![r] =
                    PrimaryEnd([Src(req[r], "signedUrlJson", "primary", "fail")
                                  EXCEPT !.json = "fail"])]
     \/ \E json \in Json3Bodies(req[r].vid, req[r].track) :
          LET jsonLines == parseTranscriptJson3(json)
              q == [Src(req[r], "signedUrlJson", "primary", "ok")
                      EXCEPT !.json = "parsed", !.jsonLines = jsonLines]
          IN  req' = [req EXCEPT ![r] =
                        IF Len(jsonLines) > 0 THEN FTReturn(q, jsonLines) ELSE PrimaryEnd(q)]
  /\ UNCHANGED <<tmpDirs, captions, videoTracks, transcripts, summaries, multilingual, answered, calls>>

\* fetchTranscriptLegacy, step 1: the library again; an error that is not a
\* recognised "no captions" message is thrown on.
FT_LegacyLib(r) ==
  /\ req[r].pc = "l_lib"
  /\ \E out \in ApiOutcomes(req[r].vid, req[r].ftLang) :
       LET ok == Len(out.lines) > 0
           q == Src(req[r], "TranscriptAPI", "legacy", IF ok THEN "ok" ELSE "fail")
       IN  req' = [req EXCEPT ![r] =
                     IF ok THEN FTReturn(q, out.lines)
                     ELSE IF LegacyRecognised(out.err.message) THEN [q EXCEPT !.pc = "l_info"]
                     ELSE FTThrow(q, out.err)]
  /\ UNCHANGED <<tmpDirs, captions, videoTracks, transcripts, summaries, multilingual, answered, calls>>

\* fetchTranscriptLegacy, step 2: ytdl.getBasicInfo and the track selection.
FT_LegacyInfo(r) ==
  /\ req[r].pc = "l_info"
  /\ \/ \E e \in InfoErrors :
          req' = [req EXCEPT ![r] = FTThrow(Src(req[r], "getBasicInfo", "legacy", "fail"), e)]
     \/ /\ req[r].vid \in Videos
        /\ LET tracks == videoTracks[req[r].vid]
               q == Src(req[r], "getBasicInfo", "legacy", "ok")
           IN  req' = [req EXCEPT ![r] =
                      IF Len(tracks) = 0
                        THEN FTThrow(q, Err("No captionTracks available to scrape.", 0))
                      ELSE [q EXCEPT !.pc = "l_get",
                                     !.track = ScrapeTrack(tracks, q.ftLang).languageCode]]
  /\ UNCHANGED <<tmpDirs, captions, videoTracks, transcripts, summaries, multilingual, answered, calls>>

\* fetchTranscriptLegacy, step 3: the signed URL, XML only.
FT_LegacyGet(r) ==
  /\ req[r].pc = "l_get"
  /\ \/ \E e \in HttpErrors :
          req' = [req EXCEPT ![r] = FTThrow(Src(req[r], "signedUrl", "legacy", "fail"), e)]
     \/ \E xml \in XmlBodies(req[r].vid, req[r].track) :
          LET q == Src(req[r], "signedUrl", "legacy", "ok")
              parsed == parseTranscriptXml(xml)
          IN  req' = [req EXCEPT ![r] =
                        IF parsed.threw THEN FTThrow(q, TypeErr)
                        ELSE IF Len(parsed.lines) = 0
                          THEN FTThrow(q, Err("Manual scrape returned empty transcript.", 0))
                        ELSE FTReturn(q, parsed.lines)]
  /\ UNCHANGED <<tmpDirs, captions, videoTracks, transcripts, summaries, multilingual, answered, calls>>

\* --------------------------------------------- the 'transcripts' collection
\* A record of 'transcripts': /smart-transcript stores the first four fields,
\* /smart-transcript-v2 also the tags and the rest of the metadata (rich).
TDoc(v, text, tags, hasTags, rich) ==
  [ exists |-> TRUE, videoID |-> v, title |-> Title(v),
    duration |-> Duration(v), transcript |-> text,
    tags |-> tags, hasTags |-> hasTags, rich |-> rich ]

\* responsePayload.warning = 'No transcript found, but metadata saved.'
WithWarning(doc) ==
  [f \in DOMAIN doc \cup {"warning"} |-> IF f = "warning" THEN TRUE ELSE doc[f]]

\* What ytdl.getBasicInfo(url) may do for the endpoint handlers.
InfoOutcomes == { NoErr } \cup InfoErrors
\* What a caption library call may give for (v, l): lines, nothing, an error.
SubsOutcomes(v, l) == { SubsLines(v, l), <<>> }
\* Firestore set: done, or failed with a StoreError.
SetOutcomes == { "ok", "StoreError" }

\* ------------------------------------------------------ GET /api/transcript
ApiStart(q) ==
  IF q.url = NoUrl THEN Respond(q, 400, ErrBody("videoId required"))
  ELSE CallFetchTranscript([q EXCEPT !.vid = q.url],
                           IF Truthy(q.lang) THEN q.lang ELSE en)

\* -------------------------------------------------- POST /smart-transcript
\* ytdl.getURLVideoID throws on a missing or unparsable url: the outer catch.
StStart(q) ==
  IF q.url \notin Videos
    THEN Respond(q, 500, Msg("An error occurred while processing the transcript."))
  ELSE [q EXCEPT !.vid = q.url, !.pc = "get"]

\* The record exists: it is returned as it is.
StCacheHit(doc) == doc.exists

St_Get(r) ==
  /\ req[r].ep = "st" /\ req[r].pc = "get"
  /\ \/ req' = [req EXCEPT ![r] =
                  Respond(StoreFailed(@), 500,
                          Msg("An error occurred while processing the transcript."))]
     \/ LET doc == transcripts[req[r].vid] IN
        req' = [req EXCEPT ![r] =
                  IF StCacheHit(doc)
                    THEN Respond([@ EXCEPT !.hit = TRUE, !.snap = doc, !.text = doc.transcript],
                                 200, Data(doc))
                  ELSE [Invoke(@, "getBasicInfo") EXCEPT !.pc = "info"]]
  /\ UNCHANGED <<tmpDirs, captions, videoTracks, transcripts, summaries, multilingual, answered, calls>>

St_Info(r) ==
  /\ req[r].ep = "st" /\ req[r].pc = "info"
  /\ \E out \in InfoOutcomes :
       LET tracks == videoTracks[req[r].vid] IN
       req' = [req EXCEPT ![r] =
                 IF out # NoErr
                   THEN Respond(InfoDone(@, out), 500,
                                Msg("An error occurred while processing the transcript."))
                 ELSE IF Len(tracks) = 0
                   THEN Respond(Complete(@, "ok"), 404, Msg("No captions available for this video."))
                 ELSE [Invoke(Complete(@, "ok"), "getSubtitles") EXCEPT
                         !.pc = "subs", !.sel = tracks[1].languageCode]]
  /\ UNCHANGED <<tmpDirs, captions, videoTracks, transcripts, summaries, multilingual, answered, calls>>

\* getSubtitles is the only caption source of /smart-transcript: a failure or
\* an empty result is answered 404.
St_Subs(r) ==
  /\ req[r].ep = "st" /\ req[r].pc = "subs"
  /\ \/ req' = [req EXCEPT ![r] =
                  Respond(Complete(@, "fail"), 404, Msg("No transcript found for this video."))]
     \/ \E lines \in SubsOutcomes(req[r].vid, req[r].sel) :
          req' = [req EXCEPT ![r] =
                    IF Len(lines) = 0
                      THEN Respond(Complete(@, "empty"), 404,
                                   Msg("No transcript found for this video."))
                    ELSE [Complete(@, "ok") EXCEPT !.text = JoinSp(Texts(lines)), !.pc = "set"]]
  /\ UNCHANGED <<tmpDirs, captions, videoTracks, transcripts, summaries, multilingual, answered, calls>>

\* docRef.set sits in the inner try: a store failure is answered 404 too.
St_Set(r) ==
  /\ req[r].ep = "st" /\ req[r].pc = "set"
  /\ \E out \in SetOutcomes :
       LET doc == TDoc(req[r].vid, req[r].text, <<>>, FALSE, FALSE) IN
       IF out = "ok"
       THEN /\ transcripts' = [transcripts EXCEPT ![req[r].vid] = doc]
            /\ req' = [req EXCEPT ![r] = Respond(Wrote(@, "transcripts"), 200, Data(doc))]
       ELSE /\ req' = [req EXCEPT ![r] =
                         Respond(StoreFailed(@), 404, Msg("No transcript found for this video."))]
            /\ UNCHANGED transcripts
  /\ UNCHANGED <<tmpDirs, captions, videoTracks, summaries, multilingual, answered, calls>>

\* ----------------------------------------------- POST /smart-transcript-v2
St2Start(q) ==
  IF q.url = NoUrl THEN Respond(q, 400, Msg("URL is required"))
  ELSE IF q.url \notin Videos THEN Respond(q, 400, Msg("Invalid YouTube URL"))
  ELSE [q EXCEPT !.vid = q.url, !.pc = "get"]

\* Variant of St2CacheHit: the stored record is never used.
St2NeverHit(doc) == FALSE

\* doc.exists and cached?.transcript: a record with an empty transcript is
\* no hit.
St2CacheHit(doc) == doc.exists /\ Truthy(doc.transcript)

\* find(en*, not asr) || find(en*) || captionTracks[0], with languageCode?.
preferredTrack(tracks) ==
  LET i == FindIndex(LAMBDA t : StartsWith(t.languageCode, en) /\ t.kind # "asr", tracks)
      j == FindIndex(LAMBDA t : StartsWith(t.languageCode, en), tracks)
  IN  IF i > 0 THEN tracks[i] ELSE IF j > 0 THEN tracks[j] ELSE tracks[1]

\* track.languageCode.startsWith('en') throws on a track without a code that
\* find reaches before a match.
PreferredThrows(tracks) ==
  \E i \in 1..Len(tracks) :
    /\ tracks[i].languageCode = NoLang
    /\ \A j \in 1..(i - 1) :
         ~(StartsWith(tracks[j].languageCode, en) /\ tracks[j].kind # "asr")

\* Variant of NeedsNext: the next source is asked whatever the text is.
NeedsNextAlways(transcript) == TRUE

\* if (!transcript): the next source is asked only while there is no text.
NeedsNext(transcript) == ~Truthy(transcript)

St2_Get(r) ==
  /\ req[r].ep = "st2" /\ req[r].pc = "get"
  /\ \/ req' = [req EXCEPT ![r] =
                  Respond(StoreFailed(@), 500,
                          Msg("An error occurred while processing the transcript."))]
     \/ LET doc == transcripts[req[r].vid] IN
        req' = [req EXCEPT ![r] =
                  IF St2CacheHit(doc)
                    THEN Respond([@ EXCEPT !.hit = TRUE, !.snap = doc, !.text = doc.transcript],
                                 200, Data(doc))
                  ELSE [Invoke(@, "getBasicInfo") EXCEPT !.pc = "info"]]
  /\ UNCHANGED <<tmpDirs, captions, videoTracks, transcripts, summaries, multilingual, answered, calls>>

\* Variant of St2FirstSource: the caption library is asked first.
St2LibraryFirst(q) ==
  IF Truthy(q.sel) THEN [Invoke(q, "getSubtitles") EXCEPT !.pc = "subs"]
  ELSE CallFetchTranscript(q, en)

\* After getBasicInfo: the first source is yt-dlp (fabricFetchTranscript);
\* a selected track without a language code leaves only fetchTranscript.
St2FirstSource(q) ==
  IF Truthy(q.sel) THEN [Invoke(q, "fabricFetchTranscript") EXCEPT !.pc = "fabric"]
  ELSE IF NeedsNext(q.text) THEN CallFetchTranscript(q, en)
  ELSE [q EXCEPT !.pc = "set"]

St2_Info(r) ==
  /\ req[r].ep = "st2" /\ req[r].pc = "info"
  /\ \E out \in InfoOutcomes :
       LET tracks == videoTracks[req[r].vid] IN
       req' = [req EXCEPT ![r] =
                 IF out # NoErr
                   THEN Respond(InfoDone(@, out), 500,
                                Msg("An error occurred while processing the transcript."))
                 ELSE IF Len(tracks) = 0
                   THEN Respond(Complete(@, "ok"), 404, Msg("No captions available for this video."))
                 ELSE St2FirstSource([Complete(@, "ok") EXCEPT
                                        !.sel = preferredTrack(tracks).languageCode])]
  /\ UNCHANGED <<tmpDirs, captions, videoTracks, transcripts, summaries, multilingual, answered, calls>>

\* Variant of St2AfterFabric: a failed yt-dlp source ends the request.
St2AfterFabricAbort(q) ==
  IF NeedsNext(q.text) THEN Respond(q, 404, Msg("No transcript found for this video."))
  ELSE [q EXCEPT !.pc = "set"]

\* After the yt-dlp source: getSubtitles when there is still no text.
St2AfterFabric(q) ==
  IF NeedsNext(q.text) THEN [Invoke(q, "getSubtitles") EXCEPT !.pc = "subs"]
  ELSE [q EXCEPT !.pc = "set"]

St2_Fabric(r) ==
  /\ req[r].ep = "st2" /\ req[r].pc \in { "fabric", "ytdlp" }
  /\ \E out \in FabricResults(req[r].vid, req[r].sel) :
       /\ FabricEnds(r, out)
       /\ req' = [req EXCEPT ![r] =
                    IF out.threw THEN St2AfterFabric(Complete(@, "fail"))
                    ELSE St2AfterFabric([Complete(@, IF Truthy(out.text) THEN "ok" ELSE "empty")
                                           EXCEPT !.text = out.text])]
  /\ UNCHANGED <<captions, videoTracks, transcripts, summaries, multilingual, answered, calls>>

\* After getSubtitles: fetchTranscript when there is still no text.
St2AfterSubs(q) ==
  IF NeedsNext(q.text) THEN CallFetchTranscript(q, IF Truthy(q.sel) THEN q.sel ELSE en)
  ELSE [q EXCEPT !.pc = "set"]

St2_Subs(r) ==
  /\ req[r].ep = "st2" /\ req[r].pc = "subs"
  /\ \/ req' = [req EXCEPT ![r] = St2AfterSubs(Complete(@, "fail"))]
     \/ \E lines \in SubsOutcomes(req[r].vid, req[r].sel) :
          req' = [req EXCEPT ![r] =
                    IF Len(lines) = 0 THEN St2AfterSubs(Complete(@, "empty"))
                    ELSE St2AfterSubs([Complete(@, "ok") EXCEPT !.text = JoinSp(Texts(lines))])]
  /\ UNCHANGED <<tmpDirs, captions, videoTracks, transcripts, summaries, multilingual, answered, calls>>

\* The record is written whatever the transcript is, and the request is
\* answered 200; an empty transcript only adds the warning.
St2Answer(q, doc) ==
  Respond(q, 200, Data(IF Truthy(q.text) THEN doc ELSE WithWarning(doc)))

St2_Set(r) ==
  /\ req[r].ep = "st2" /\ req[r].pc = "set"
  /\ \E out \in SetOutcomes :
       LET doc == TDoc(req[r].vid, req[r].text, Keywords(req[r].vid), TRUE, TRUE) IN
       IF out = "ok"
       THEN /\ transcripts' = [transcripts EXCEPT ![req[r].vid] = doc]
            /\ req' = [req EXCEPT ![r] = St2Answer(Wrote(@, "transcripts"), doc)]
       ELSE /\ req' = [req EXCEPT ![r] =
                         Respond(StoreFailed(@), 500,
                                 Msg("An error occurred while processing the transcript."))]
            /\ UNCHANGED transcripts
  /\ UNCHANGED <<tmpDirs, captions, videoTracks, summaries, multilingual, answered, calls>>

\* -------- POST /transcript, /simple-transcript and /simple-transcript-v2
\* url.includes('/shorts/') on a missing url and ytdl.getURLVideoID on a url
\* without a video id both throw: the outer catch answers 500.
SimpleError(q) ==
  Respond(q, 500, Msg(IF q.ep = "tr" THEN "An error occurred while fetching the transcript."
                      ELSE "An error occurred while fetching the simple transcript."))
SimpleStart(q) ==
  IF q.url \notin Videos THEN SimpleError(q)
  ELSE [Invoke([q EXCEPT !.vid = q.url], "getBasicInfo") EXCEPT !.pc = "info"]

NoCaptions(q) == Respond(q, 404, Msg("No captions available for this video."))

\* /transcript tests player_response.captions before it reads the tracks and
\* asks fetchTranscript for the language of the first track.
Tr_Info(r) ==
  /\ req[r].ep = "tr" /\ req[r].pc = "info"
  /\ \E out \in InfoOutcomes :
       LET v == req[r].vid
           q == InfoDone(req[r], out)
       IN  req' = [req EXCEPT ![r] =
                     IF out # NoErr THEN SimpleError(q)
                     ELSE IF ~captions[v] \/ Len(videoTracks[v]) = 0 THEN NoCaptions(q)
                     ELSE CallFetchTranscript([q EXCEPT !.sel = videoTracks[v][1].languageCode],
                                              videoTracks[v][1].languageCode)]
  /\ UNCHANGED <<tmpDirs, captions, videoTracks, transcripts, summaries, multilingual, answered, calls>>

\* /simple-transcript reads player_response.captions.playerCaptionsTracklistRenderer
\* without a test: a video without a captions section makes it throw.  The
\* adapter is called with the code of the first track ('en' when it has none).
Simple_Info(r) ==
  /\ req[r].ep = "simple" /\ req[r].pc = "info"
  /\ \E out \in InfoOutcomes :
       LET v == req[r].vid
           q == InfoDone(req[r], out)
           code == videoTracks[v][1].languageCode
       IN  req' = [req EXCEPT ![r] =
                     IF out # NoErr \/ ~captions[v] THEN SimpleError(q)
                     ELSE IF Len(videoTracks[v]) = 0 THEN NoCaptions(q)
                     ELSE [Invoke(q, "fabricFetchTranscript") EXCEPT
                             !.sel = IF Truthy(code) THEN code ELSE en, !.pc = "fabric"]]
  /\ UNCHANGED <<tmpDirs, captions, videoTracks, transcripts, summaries, multilingual, answered, calls>>

Simple_Fabric(r) ==
  /\ req[r].ep = "simple" /\ req[r].pc \in { "fabric", "ytdlp" }
  /\ \E out \in FabricResults(req[r].vid, req[r].sel) :
       /\ FabricEnds(r, out)
       /\ req' = [req EXCEPT ![r] =
                    IF out.threw THEN SimpleError(Complete(@, "fail"))
                    ELSE Respond([Complete(@, IF Truthy(out.text) THEN "ok" ELSE "empty")
                                    EXCEPT !.text = out.text],
                                 200, Data([duration |-> Duration(@.vid),
                                            title |-> Title(@.vid), transcript |-> out.text]))]
  /\ UNCHANGED <<captions, videoTracks, transcripts, summaries, multilingual, answered, calls>>

\* captionTracks.find(en*, not asr) || captionTracks.find(en*), undefined when
\* there is none: the index of the track, 0 for undefined.
englishTrack(tracks) ==
  LET i == FindIndex(LAMBDA t : StartsWith(t.languageCode, en) /\ t.kind # "asr", tracks)
  IN  IF i > 0 THEN i ELSE FindIndex(LAMBDA t : StartsWith(t.languageCode, en), tracks)

\* /simple-transcript-v2.  With lang: 404 unless a track has that very code,
\* and then fetchTranscript(videoID, languageCode) names a variable that does
\* not exist, a ReferenceError for the outer catch.  Without lang: the code
\* reported is the one of the English (else the first) track, the language
\* asked of getSubtitles is 'en' (else the first track's).
S2_Info(r) ==
  /\ req[r].ep = "s2" /\ req[r].pc = "info"
  /\ \E out \in InfoOutcomes :
       LET v == req[r].vid
           tracks == videoTracks[v]
           q == InfoDone(req[r], out)
           subs(reported, asked) ==
             [Invoke(q, "getSubtitles") EXCEPT !.track = reported, !.sel = asked, !.pc = "subs"]
       IN  req' = [req EXCEPT ![r] =
                     IF out # NoErr \/ ~captions[v] THEN SimpleError(q)
                     ELSE IF Len(tracks) = 0 THEN NoCaptions(q)
                     ELSE IF Truthy(q.lang)
                       THEN IF FindIndex(LAMBDA t : t.languageCode = q.lang, tracks) = 0
                              THEN Respond(q, 404, Msg("No captions available in the requested language."))
                            ELSE SimpleError(q)
                     ELSE IF PreferredThrows(tracks) THEN SimpleError(q)
                     ELSE IF englishTrack(tracks) > 0
                       THEN subs(tracks[englishTrack(tracks)].languageCode, en)
                     ELSE subs(tracks[1].languageCode, tracks[1].languageCode)]
  /\ UNCHANGED <<tmpDirs, captions, videoTracks, transcripts, summaries, multilingual, answered, calls>>

\* getSubtitles throws, or returns nothing (the handler throws): 500.
S2_Subs(r) ==
  /\ req[r].ep = "s2" /\ req[r].pc = "subs"
  /\ \/ req' = [req EXCEPT ![r] = SimpleError(Complete(@, "fail"))]
     \/ \E lines \in SubsOutcomes(req[r].vid, req[r].sel) :
          req' = [req EXCEPT ![r] =
                    IF Len(lines) = 0 THEN SimpleError(Complete(@, "empty"))
                    ELSE Respond([Complete(@, "ok") EXCEPT !.text = JoinSp(Texts(lines))],
                                 200, Data([duration |-> Duration(@.vid),
                                            title |-> Title(@.vid),
                                            transcript |-> JoinSp(Texts(lines)),
                                            transcriptLanguageCode |-> @.track]))]
  /\ UNCHANGED <<tmpDirs, captions, videoTracks, transcripts, summaries, multilingual, answered, calls>>

\* ------------------------------------------------ requests come and go
\* Languages a client may ask for.
Langs == { NoLang, en, es, fr }

\* The request was answered 200 with a transcript or a summary in it.
Usable(q) == q.status = 200 /\ Truthy(q.text)

\* The endpoints whose answers the history keeps: /smart-transcript and
\* /smart-transcript-v2.
Caching(ep) == ep \in { "st", "st2" }

\* What the earlier requests of the same endpoint for the same video got.
Prior(ep, url) ==
  IF <<ep, url, TRUE>> \in answered THEN "usable"
  ELSE IF <<ep, url, FALSE>> \in answered THEN "unusable"
  ELSE "none"

\* Slot r takes the next request: the slots are interchangeable, so the
\* lowest free one does.
Free(r) == req[r].pc = "idle" /\ \A s \in Reqs : s < r => req[s].pc # "idle"

NewReq(ep, url, lang, model) ==
  [IdleReq EXCEPT !.ep = ep, !.url = url, !.lang = lang, !.model = model,
                  !.prior = Prior(ep, url)]

\* A request to one of the transcript endpoints arrives; the synchronous
\* head of its handler runs.
StartTranscript(r) ==
  /\ Free(r) /\ calls < MaxCalls /\ calls' = calls + 1
  /\ \E url \in Urls :
       \/ \E lang \in Langs : req' = [req EXCEPT ![r] = ApiStart(NewReq("api", url, lang, ""))]
       \/ req' = [req EXCEPT ![r] = StStart(NewReq("st", url, NoLang, ""))]
       \/ req' = [req EXCEPT ![r] = St2Start(NewReq("st2", url, NoLang, ""))]
       \/ \E ep \in { "tr", "simple" } :
            req' = [req EXCEPT ![r] = SimpleStart(NewReq(ep, url, NoLang, ""))]
       \/ \E lang \in Langs : req' = [req EXCEPT ![r] = SimpleStart(NewReq("s2", url, lang, ""))]
  /\ UNCHANGED <<tmpDirs, captions, videoTracks, transcripts, summaries, multilingual, answered>>

\* The response has gone out: the slot is free for the next request.
Finish(r) ==
  /\ req[r].pc = "done"
  /\ answered' = IF Caching(req[r].ep) /\ req[r].vid \in Videos
                   THEN answered \cup { <<req[r].ep, req[r].vid, Usable(req[r])>> }
                 ELSE answered
  /\ req' = [req EXCEPT ![r] = IdleReq]
  /\ UNCHANGED <<tmpDirs, captions, videoTracks, transcripts, summaries, multilingual, calls>>

InitStore ==
  /\ req = [r \in Reqs |-> IdleReq]
  /\ answered = {}
  /\ calls = 0
  /\ tmpDirs = NoTmpDirs

Init ==
  /\ InitStore
  /\ videoTracks \in [Videos -> TrackLists]
  /\ captions \in [Videos -> BOOLEAN]
  /\ \A v \in Videos : ~captions[v] => videoTracks[v] = <<>>
  /\ transcripts = [v \in Videos |-> Absent]
  /\ summaries = [v \in Videos |-> Absent]
  /\ multilingual = [v \in Videos |-> Absent]

FetchTranscriptStep(r) ==
  \/ FT_PrimaryLib(r) \/ FT_PrimaryInfo(r) \/ FT_PrimaryGet(r) \/ FT_PrimaryJson(r)
  \/ FT_LegacyLib(r) \/ FT_LegacyInfo(r) \/ FT_LegacyGet(r)

\* The transcript endpoints are explored one request after the other: a
\* request sees the others only through the record it reads at its cache
\* lookup, and every record is one that some request wrote.
OneAtATime == { r \in Reqs : \A s \in Reqs : r <= s }

Next ==
  \E r \in OneAtATime :
    \/ StartTranscript(r)
    \/ St_Get(r) \/ St_Info(r) \/ St_Subs(r) \/ St_Set(r)
    \/ St2_Get(r) \/ St2_Info(r) \/ St2_Fabric(r) \/ St2_Subs(r) \/ St2_Set(r)
    \/ Tr_Info(r) \/ Simple_Info(r) \/ Simple_Fabric(r) \/ S2_Info(r) \/ S2_Subs(r)
    \/ FetchTranscriptStep(r)
    \/ Fabric_Dir(r) \/ Fabric_Hangs(r) \/ Fabric_Removed
    \/ Finish(r)

Spec == Init /\ [][Next]_vars

TypeOK == \A r \in Reqs : req[r].pc \in
  { "idle", "done", "get", "info", "subs", "fabric", "set",
    "p_lib", "p_info", "p_get", "p_json", "l_lib", "l_info", "l_get",
    "tget", "model", "tset", "ytdlp", "hung", "backoff" }

\* ----------------------------------------------- POST /simple-transcript-v3
\* A record of 'transcripts-multilingual' and one entry of its transcript array.
MDoc(v, duration, array, languages) ==
  [ exists |-> TRUE, videoID |-> v, duration |-> duration, transcript |-> array,
    availableLanguages |-> languages ]
Entry(language, v, text) == [ language |-> language, title |-> Title(v), transcript |-> text ]

\* The body of a 200 answer; the answer after a cache miss also carries
\* videoInfoSummary.
V3Body(doc, entry, summary) ==
  [ videoID |-> doc.videoID, duration |-> doc.duration, title |-> entry.title,
    transcript |-> entry.transcript, transcriptLanguageCode |-> entry.language,
    languages |-> doc.availableLanguages, videoInfoSummary |-> summary ]

\* Variant of cachedTranscript: the cached array is never matched.
cachedTranscriptNone(array, lang) == 0

\* cached.transcript.find(language === lang) || find(language.startsWith(lang)):
\* the index of the entry found, 0 when there is none.
cachedTranscript(array, lang) ==
  LET i == FindIndex(LAMBDA t : t.language = lang, array)
  IN  IF i > 0 THEN i ELSE FindIndex(LAMBDA t : StartsWith(t.language, lang), array)

\* transcriptArray.findIndex(language === selectedLanguageCode): update or push.
AddOrUpdate(array, entry) ==
  LET i == FindIndex(LAMBDA t : t.language = entry.language, array)
  IN  IF i > 0 THEN [array EXCEPT ![i] = entry] ELSE Append(array, entry)

V3Error(q) ==
  Respond(q, 500, Msg("An error occurred while fetching and saving the transcript."))

StartV3(r) ==
  /\ Free(r) /\ calls < MaxCalls /\ calls' = calls + 1
  /\ \E url \in Urls, lang \in Langs :
       LET q == NewReq("v3", url, lang, "") IN
       req' = [req EXCEPT ![r] =
                 IF url \notin Videos THEN V3Error(q)
                 ELSE [q EXCEPT !.vid = url, !.pc = "get"]]
  /\ UNCHANGED <<tmpDirs, captions, videoTracks, transcripts, summaries, multilingual, answered>>

\* The cache lookup and, when the record exists, the search in its array.
V3_Get(r) ==
  /\ req[r].ep = "v3" /\ req[r].pc = "get"
  /\ \/ req' = [req EXCEPT ![r] = V3Error(StoreFailed(@))]
     \/ LET doc == multilingual[req[r].vid]
            q == [req[r] EXCEPT !.snap = doc, !.hit = doc.exists]
            i == IF ~doc.exists THEN 0
                 ELSE IF ~Truthy(q.lang) THEN 1
                 ELSE cachedTranscript(doc.transcript, q.lang)
        IN  req' = [req EXCEPT ![r] =
                      IF i > 0
                        THEN Respond([q EXCEPT !.text = doc.transcript[i].transcript,
                                               !.sel = doc.transcript[i].language],
                                     200, Data(V3Body(doc, doc.transcript[i], FALSE)))
                      ELSE [Invoke(q, "getBasicInfo") EXCEPT !.pc = "info"]]
  /\ UNCHANGED <<tmpDirs, captions, videoTracks, transcripts, summaries, multilingual, answered, calls>>

\* safeGetVideoInfo, then the choice of the language to fetch: the requested
\* one as it is when the record exists, else a track of the video.
V3_Info(r) ==
  /\ req[r].ep = "v3" /\ req[r].pc = "info"
  /\ \E out \in InfoOutcomes :
       LET tracks == videoTracks[req[r].vid]
           q == InfoDone(req[r], out)
           fetch(code) == [Invoke(q, "fabricFetchTranscript") EXCEPT !.sel = code, !.pc = "fabric"]
       IN  req' = [req EXCEPT ![r] =
                     IF out # NoErr
                       THEN IF MentionsPrivate(out.message)
                              THEN Respond(q, 403, Msg("This is a private video. Cannot fetch transcript."))
                            ELSE V3Error(q)
                     ELSE IF q.hit THEN fetch(q.lang)
                     ELSE IF Len(tracks) = 0
                       THEN Respond(q, 404, Msg("No captions available for this video."))
                     ELSE IF Truthy(q.lang)
                       THEN IF FindIndex(LAMBDA t : t.languageCode = q.lang, tracks) = 0
                              THEN Respond(q, 404, Msg("No captions available in the requested language."))
                            ELSE fetch(q.lang)
                     ELSE IF PreferredThrows(tracks) THEN V3Error(q)
                     ELSE fetch(preferredTrack(tracks).languageCode)]
  /\ UNCHANGED <<tmpDirs, captions, videoTracks, transcripts, summaries, multilingual, answered, calls>>

V3_Fabric(r) ==
  /\ req[r].ep = "v3" /\ req[r].pc \in { "fabric", "ytdlp" }
  /\ \E out \in FabricResults(req[r].vid, req[r].sel) :
       /\ FabricEnds(r, out)
       /\ req' = [req EXCEPT ![r] =
                    IF out.threw THEN V3Error(Complete(@, "fail"))
                    ELSE [Complete(@, IF Truthy(out.text) THEN "ok" ELSE "empty") EXCEPT
                            !.text = out.text, !.pc = "set"]]
  /\ UNCHANGED <<captions, videoTracks, transcripts, summaries, multilingual, answered, calls>>

\* The array is built from the snapshot read at the lookup (push when the
\* record existed, add-or-update on an empty array otherwise) and the whole
\* record is written.
V3_Set(r) ==
  /\ req[r].ep = "v3" /\ req[r].pc = "set"
  /\ \E out \in SetOutcomes :
       LET q == req[r]
           entry == Entry(q.sel, q.vid, q.text)
           doc == IF q.hit
                    THEN MDoc(q.snap.videoID, q.snap.duration, Append(q.snap.transcript, entry),
                              q.snap.availableLanguages)
                  ELSE MDoc(q.vid, Duration(q.vid), AddOrUpdate(<<>>, entry),
                            TrackCodes(videoTracks[q.vid]))
       IN  IF out = "ok"
           THEN /\ multilingual' = [multilingual EXCEPT ![q.vid] = doc]
                /\ req' = [req EXCEPT ![r] =
                             Respond(Wrote(q, "transcripts-multilingual"), 200,
                                     Data(V3Body(doc, entry, ~q.hit)))]
           ELSE /\ req' = [req EXCEPT ![r] = V3Error(StoreFailed(q))]
                /\ UNCHANGED multilingual
  /\ UNCHANGED <<tmpDirs, captions, videoTracks, transcripts, summaries, answered, calls>>

NextV3 ==
  \E r \in Reqs :
    \/ StartV3(r) \/ V3_Get(r) \/ V3_Info(r) \/ Fabric_Dir(r) \/ V3_Fabric(r) \/ V3_Set(r)
    \/ Fabric_Hangs(r) \/ Fabric_Removed \/ Finish(r)

SpecV3 == Init /\ [][NextV3]_vars

\* ------------------------------------------------- the summary endpoints
\* modelUrls[model] is set for these names.
ValidModels == { "chatgpt", "deepseek", "anthropic" }
\* Model names a client may send ("" when the field is missing).
Models == { "chatgpt", "gpt-5", "" }

\* Words in a text: a run of letters, digits and hyphens is a symbol
\* <<"w", name, case>>, name being the run in lower case; runs that touch
\* make one token.  Punct is a character that is no letter, digit, hyphen or
\* whitespace.  The other symbols of a text (a title, a caption) stand for a
\* token of their own.
Word(name) == <<"w", name, "lower">>
Upper(name) == <<"w", name, "upper">>
Punct == <<"p">>
IsWord(sym) == Len(sym) = 3 /\ sym[1] = "w"
\* toLowerCase on one symbol.
toLowerCase(sym) == IF IsWord(sym) /\ sym[3] = "upper" THEN Word(sym[2]) ELSE sym

stopwords ==
  { "the", "and", "for", "with", "that", "this", "from", "your", "you", "are",
    "was", "were", "has", "have", "had", "not", "but", "its", "into", "their",
    "they", "them", "then", "than", "also", "over", "more", "less", "very",
    "been", "being", "when", "where", "what", "which", "who", "why", "how",
    "can", "could", "will", "would", "should", "about", "after", "before",
    "because", "there", "here", "these", "those", "just", "like", "make",
    "made", "most", "such", "some", "only", "much", "many", "yourself" }

\* .replace(/[^a-z0-9\s-]/g, ' ').split(/\s+/): the tokens of a text in lower
\* case; cur is the token being read.
RECURSIVE SplitWords(_, _)
SplitWords(text, cur) ==
  LET flush == IF cur = "" THEN <<>> ELSE << Word(cur) >> IN
  IF Len(text) = 0 THEN flush
  ELSE IF text[1] \in { SP, WS, Punct } THEN flush \o SplitWords(Tail(text), "")
  ELSE IF IsWord(text[1]) /\ text[1][3] = "lower" THEN SplitWords(Tail(text), cur \o text[1][2])
  ELSE flush \o << text[1] >> \o SplitWords(Tail(text), "")

\* Variant of KeepWord: every token is kept.
KeepEveryWord(word) == TRUE

\* word.length >= 4 && !stopwords.has(word)
KeepWord(word) == IsWord(word) => (Len(word[2]) >= 4 /\ word[2] \notin stopwords)

\* The texts the model endpoint may answer with.
ModelTexts ==
  { SubSeq(<< Upper("cats"), SP, Word("the"), SP, Word("dogs"), SP, Word("cats"), SP, Word("dogs"),
              SP, Word("dogs") >>, 1, 2 * n + 1) : n \in 1..MaxModelTexts }
ModelTags == { <<>>, << Word("pets") >> }

\* The most frequent entry of words (the first of them when several are),
\* then the rest: a stable sort by count, descending.
\* Variant of SortByCount: the entries stay in the order of the Map.
NotSorted(words, all) == words
RECURSIVE SortByCount(_, _)
SortByCount(words, all) ==
  IF Len(words) = 0 THEN <<>>
  ELSE LET count(w) == Cardinality({ i \in 1..Len(all) : all[i] = w })
           k == CHOOSE i \in 1..Len(words) :
                  /\ \A j \in 1..Len(words) : count(words[j]) <= count(words[i])
                  /\ \A j \in 1..(i - 1) : count(words[j]) < count(words[i])
       IN  <<words[k]>> \o SortByCount(SubSeq(words, 1, k - 1) \o SubSeq(words, k + 1, Len(words)), all)

\* .slice(0, 10)
MaxTags == 10

buildTagsFromText(text) ==
  LET lower == [i \in 1..Len(text) |-> toLowerCase(text[i])]
      words == FilterSeq(KeepWord, SplitWords(lower, ""))
      first == { i \in 1..Len(words) : \A j \in 1..(i - 1) : words[j] # words[i] }
      distinct == [n \in 1..Cardinality(first) |->
                     words[CHOOSE i \in first : Cardinality({ j \in first : j < i }) = n - 1]]
      sorted == SortByCount(distinct, words)
  IN  SubSeq(sorted, 1, IF Len(sorted) < MaxTags THEN Len(sorted) ELSE MaxTags)

\* A record of 'summaries'.
SDoc(summary, tags, hasTags) ==
  [ exists |-> TRUE, summary |-> summary, tags |-> tags, hasTags |-> hasTags ]
\* set({ summary, updatedAt }, { merge: true }): the other fields stay.
MergeSummary(doc, summary) ==
  IF doc.exists THEN [doc EXCEPT !.summary = summary] ELSE SDoc(summary, <<>>, FALSE)

\* Variant of SummaryCacheHit: any stored record is a hit.
SummaryCacheHitExists(doc) == doc.exists

\* docSnap.exists and data.summary
SummaryCacheHit(doc) == doc.exists /\ Truthy(doc.summary)

\* The YAML front matter put before the summary text.
Frontmatter(ep, meta, tags) == << <<"frontmatter", ep>> >> \o meta.title \o tags

SummaryError(q) == Respond(q, 500, Msg("Error generating smart summary"))
Summary200(q, summary, fromCache) ==
  Respond([q EXCEPT !.text = summary], 200, Data([summary |-> summary, fromCache |-> fromCache]))

\* modelUrls[model]: 400 unless the model is known, else the model is called.
ModelCheck(q) ==
  IF q.model \notin ValidModels THEN Respond(q, 400, Msg("Invalid model specified"))
  ELSE [Invoke(q, "model") EXCEPT !.pc = "model", !.tries = 1]

\* A request to one of the endpoints eps arrives.
StartSummaryOf(r, eps) ==
  /\ Free(r) /\ calls < MaxCalls /\ calls' = calls + 1
  /\ \E ep \in eps, url \in Urls, model \in Models,
        given \in { <<>>, << Word("given") >> } :
       LET q == [NewReq(ep, url, NoLang, model) EXCEPT !.given = IF ep = "sum" THEN given ELSE <<>>] IN
       req' = [req EXCEPT ![r] =
                 IF url = NoUrl THEN Respond(q, 400, Msg("URL is required"))
                 ELSE IF ep = "sfb3" /\ model = "" THEN Respond(q, 400, Msg("Model is required"))
                 ELSE IF url \notin Videos
                   THEN IF ep = "sfb3" THEN Respond(q, 400, Msg("Invalid YouTube URL"))
                        ELSE SummaryError(q)
                 ELSE [q EXCEPT !.vid = url, !.pc = "get"]]
  /\ UNCHANGED <<tmpDirs, captions, videoTracks, transcripts, summaries, multilingual, answered>>

StartSummary(r) == StartSummaryOf(r, { "sum", "sfb", "sfb2", "sfb3" })

\* The lookup in 'summaries': a record with a summary is the answer; else
\* the endpoint goes on to its transcript, its metadata or the model.
Sum_Get(r) ==
  /\ req[r].pc = "get" /\ req[r].ep \in { "sum", "sfb", "sfb2", "sfb3" }
  /\ \/ req' = [req EXCEPT ![r] = SummaryError(StoreFailed(@))]
     \/ LET doc == summaries[req[r].vid]
            q == [req[r] EXCEPT !.snap = doc]
        IN  req' = [req EXCEPT ![r] =
                      IF SummaryCacheHit(doc)
                        THEN Summary200([q EXCEPT !.hit = TRUE], doc.summary, TRUE)
                      ELSE IF q.ep = "sum"
                        THEN IF Truthy(q.given) THEN ModelCheck(q)
                             ELSE [Invoke(q, "getSubtitles") EXCEPT !.pc = "subs"]
                      ELSE IF q.ep = "sfb" THEN ModelCheck(q)
                      ELSE [q EXCEPT !.pc = "tget"]]
  /\ UNCHANGED <<tmpDirs, captions, videoTracks, transcripts, summaries, multilingual, answered, calls>>

\* /smart-summary without a transcript in the body: getSubtitles in 'en'.
Sum_Subs(r) ==
  /\ req[r].ep = "sum" /\ req[r].pc = "subs"
  /\ \/ req' = [req EXCEPT ![r] = SummaryError(Complete(@, "fail"))]
     \/ \E lines \in SubsOutcomes(req[r].vid, en) :
          req' = [req EXCEPT ![r] =
                    ModelCheck([Complete(@, IF Len(lines) = 0 THEN "empty" ELSE "ok") EXCEPT
                                  !.given = JoinSp(Texts(lines))])]
  /\ UNCHANGED <<tmpDirs, captions, videoTracks, transcripts, summaries, multilingual, answered, calls>>

\* /smart-summary-firebase-v2 and -v3: the metadata is the transcripts record.
Sum_TGet(r) ==
  /\ req[r].pc = "tget"
  /\ \/ req' = [req EXCEPT ![r] = SummaryError(StoreFailed(@))]
     \/ LET doc == transcripts[req[r].vid] IN
        req' = [req EXCEPT ![r] =
                  IF ~doc.exists THEN Respond(@, 404, Msg("Transcript not found for this video."))
                  ELSE ModelCheck([@ EXCEPT !.meta = doc])]
  /\ UNCHANGED <<tmpDirs, captions, videoTracks, transcripts, summaries, multilingual, answered, calls>>

\* What a failed POST carries besides its status: err.response.data, the
\* body the model endpoint sent with its error status, or err.message when
\* there was no response.
Details == { "upstream detail a", "upstream detail b" }
\* What one POST to the model endpoint may give: a 200 answer with or without
\* a summary text, no answer at all (status 0), an error status.
ModelOutcomes ==
  { [status |-> 200, summary |-> t, tags |-> g, details |-> ""] :
      t \in ModelTexts \cup { <<>> }, g \in ModelTags }
  \cup { [status |-> n, summary |-> <<>>, tags |-> <<>>, details |-> d] :
           n \in { 0, 400, 503 }, d \in Details }
RETRYABLE_STATUS_CODES == { 429, 500, 502, 503, 504 }
\* postWithRetry(modelUrl, { videoID }, { maxAttempts: 3, baseDelayMs: 750 })
MaxAttempts == 3
BaseDelayMs == 750

\* Variant of ShouldThrow: one attempt more than maxAttempts is allowed.
ShouldThrowLate(status, attempt) ==
  status = 0 \/ status \notin RETRYABLE_STATUS_CODES \/ attempt = MaxAttempts + 1
\* Variant of ShouldThrow: every failure before the last attempt is retried.
ShouldThrowAtCap(status, attempt) == attempt = MaxAttempts

\* !status || !RETRYABLE_STATUS_CODES.has(status) || attempt === maxAttempts
ShouldThrow(status, attempt) ==
  status = 0 \/ status \notin RETRYABLE_STATUS_CODES \/ attempt = MaxAttempts

\* Variant of Backoff: the delay does not grow.
BackoffConstant(attempt) == BaseDelayMs

\* baseDelayMs * Math.pow(2, attempt - 1)
Backoff(attempt) == BaseDelayMs * 2 ^ (attempt - 1)

\* metadata.description
Description(meta) == IF meta.rich THEN << Word("about"), SP, Word("cats") >> ELSE <<>>

\* Variant of V3Tags: the tags are always built from the text.
V3TagsBuilt(meta, summary) ==
  buildTagsFromText(JoinSp(FilterSeq(LAMBDA t : Truthy(t),
                                     << meta.title, Description(meta), summary >>)))

\* /smart-summary-firebase-v3: the stored tags, or tags built from the title,
\* the description and the summary.
V3Tags(meta, summary) ==
  IF meta.hasTags /\ Len(meta.tags) > 0 THEN meta.tags
  ELSE buildTagsFromText(JoinSp(FilterSeq(LAMBDA t : Truthy(t),
                                          << meta.title, Description(meta), summary >>)))

\* Variant of AfterModel: the summary is stored whatever it is.
AfterModelUnguarded(q, out) ==
  [q EXCEPT !.text = out.summary, !.tags = out.tags, !.pc = "set"]

\* The model answered 200: the summary is read from the answer.
AfterModel(q, out) ==
  IF q.ep \in { "sum", "sfb" }
    THEN IF Truthy(out.summary) THEN [q EXCEPT !.text = out.summary, !.pc = "set"]
         ELSE Summary200(q, <<>>, FALSE)
  ELSE IF ~Truthy(out.summary) THEN Respond(q, 500, Msg("Model did not return a summary"))
  ELSE LET tags == IF q.ep = "sfb2" THEN out.tags ELSE V3Tags(q.meta, out.summary) IN
       [q EXCEPT !.tags = tags, !.text = Frontmatter(q.ep, q.meta, tags) \o out.summary,
                 !.pc = "set"]

\* One POST to the model endpoint ends.  The other endpoints call axios.post
\* once; in postWithRetry (-v3 only) a failure is thrown or the timer of the
\* backoff is set.
Sum_Model(r) ==
  /\ req[r].pc = "model"
  /\ \E out \in ModelOutcomes :
       LET q == [Complete(req[r], IF out.status = 200 THEN "ok" ELSE "fail") EXCEPT
                   !.attempts = Append(@, out.status)]
       IN
       req' = [req EXCEPT ![r] =
                 IF out.status = 200 THEN AfterModel(q, out)
                 ELSE IF q.ep # "sfb3" THEN SummaryError(q)
                 ELSE IF ~ShouldThrow(out.status, q.tries)
                   THEN [q EXCEPT !.delays = Append(@, Backoff(q.tries)), !.pc = "backoff"]
                 ELSE Respond(q, 502,
                              [message |-> "Model request failed", error |-> "",
                               data |-> [status |-> IF out.status = 0 THEN 502 ELSE out.status,
                                         details |-> out.details]])]
  /\ UNCHANGED <<tmpDirs, captions, videoTracks, transcripts, summaries, multilingual, answered, calls>>

\* postWithRetry: the delay is over, the next attempt is posted.
Sum_Backoff(r) ==
  /\ req[r].pc = "backoff"
  /\ req' = [req EXCEPT ![r] = [Invoke(@, "model") EXCEPT !.tries = @ + 1, !.pc = "model"]]
  /\ UNCHANGED <<tmpDirs, captions, videoTracks, transcripts, summaries, multilingual, answered, calls>>

\* The write to 'summaries' (merge) and, but for -v2, the answer.
Sum_Set(r) ==
  /\ req[r].pc = "set" /\ req[r].ep \in { "sum", "sfb", "sfb2", "sfb3" }
  /\ \E out \in SetOutcomes :
       LET q == req[r] IN
       IF out = "ok"
       THEN /\ summaries' = [summaries EXCEPT ![q.vid] =
                               IF q.ep \in { "sum", "sfb" } THEN MergeSummary(@, q.text)
                               ELSE SDoc(q.text, q.tags, TRUE)]
            /\ req' = [req EXCEPT ![r] =
                         IF q.ep = "sfb2" THEN [Wrote(q, "summaries") EXCEPT !.pc = "tset"]
                         ELSE Summary200(Wrote(q, "summaries"), q.text, FALSE)]
       ELSE /\ req' = [req EXCEPT ![r] = SummaryError(StoreFailed(q))]
            /\ UNCHANGED summaries
  /\ UNCHANGED <<tmpDirs, captions, videoTracks, transcripts, multilingual, answered, calls>>

\* Variant of MergeTags: set without merge, the record is replaced.
SetTags(doc, tags) == [exists |-> TRUE, tags |-> tags, hasTags |-> TRUE]

\* transcriptRef.set({ tags, updatedAt }, { merge: true }): the other fields
\* stay; a record that does not exist is made with these fields alone.
MergeTags(doc, tags) ==
  IF doc.exists THEN [doc EXCEPT !.tags = tags, !.hasTags = TRUE]
  ELSE [exists |-> TRUE, tags |-> tags, hasTags |-> TRUE]

\* /smart-summary-firebase-v2: the tags are merged into the transcripts record.
Sum_TSet(r) ==
  /\ req[r].pc = "tset"
  /\ \E out \in SetOutcomes :
       LET q == req[r] IN
       IF out = "ok"
       THEN /\ transcripts' = [transcripts EXCEPT ![q.vid] = MergeTags(@, q.tags)]
            /\ req' = [req EXCEPT ![r] = Summary200(Wrote(q, "transcripts"), q.text, FALSE)]
       ELSE /\ req' = [req EXCEPT ![r] = SummaryError(StoreFailed(q))]
            /\ UNCHANGED transcripts
  /\ UNCHANGED <<tmpDirs, captions, videoTracks, summaries, multilingual, answered, calls>>

\* The collections as the summary endpoints may find them: a transcripts
\* record written by /smart-transcript or by /smart-transcript-v2, or none;
\* no summaries record, or one that other writers of the collection left
\* without a summary field.
InitSummary ==
  /\ InitStore
  /\ videoTracks = [v \in Videos |-> << Track(en, "manual") >>]
  /\ captions = [v \in Videos |-> TRUE]
  /\ transcripts \in [Videos -> { Absent } \cup
       { TDoc(v, JoinSp(Texts(SubsLines(v, en))), <<>>, FALSE, FALSE) : v \in Videos } \cup
       { TDoc(v, JoinSp(Texts(SubsLines(v, en))), Keywords(v), TRUE, TRUE) : v \in Videos }]
  /\ \A v \in Videos : transcripts[v].exists => transcripts[v].videoID = v
  /\ summaries \in [Videos -> { Absent, SDoc(<<>>, <<>>, FALSE) }]
  /\ multilingual = [v \in Videos |-> Absent]

NextSummary ==
  \E r \in Reqs :
    \/ StartSummary(r) \/ Sum_Get(r) \/ Sum_Subs(r) \/ Sum_TGet(r)
    \/ Sum_Model(r) \/ Sum_Backoff(r) \/ Sum_Set(r) \/ Sum_TSet(r) \/ Finish(r)

SpecSummary == InitSummary /\ [][NextSummary]_vars

\* /smart-summary-firebase-v3 alone, one request after the other.  A POST to
\* the model endpoint ends (axios is given a timeout) and a timer that was
\* set fires: both steps are weakly fair.
NextRetry ==
  \E r \in OneAtATime :
    \/ StartSummaryOf(r, { "sfb3" }) \/ Sum_Get(r) \/ Sum_TGet(r)
    \/ Sum_Model(r) \/ Sum_Backoff(r) \/ Sum_Set(r) \/ Finish(r)

SpecRetry ==
  /\ InitSummary /\ [][NextRetry]_vars
  /\ \A r \in Reqs : WF_vars(Sum_Model(r)) /\ WF_vars(Sum_Backoff(r))

\* ---------------------------------- POST /simple-transcript, run to its end
\* A request to /simple-transcript arrives.
StartSimple(r) ==
  /\ Free(r) /\ calls < MaxCalls /\ calls' = calls + 1
  /\ \E url \in Urls :
       req' = [req EXCEPT ![r] = SimpleStart(NewReq("simple", url, NoLang, ""))]
  /\ UNCHANGED <<tmpDirs, captions, videoTracks, transcripts, summaries, multilingual, answered>>

NextSimple ==
  \E r \in OneAtATime :
    \/ StartSimple(r) \/ Simple_Info(r) \/ Fabric_Dir(r) \/ Simple_Fabric(r)
    \/ Fabric_Hangs(r) \/ Fabric_Removed \/ Finish(r)

\* Every step of the handler and of the adapter that can be taken is taken in
\* the end: ytdl.getBasicInfo settles, tmp.dir settles, the code after an
\* await runs once the awaited promise has settled, a removal that was started
\* ends.  Whether the tool exits is up to the tool.
SpecSimple ==
  /\ Init /\ [][NextSimple]_vars
  /\ \A r \in Reqs : /\ WF_vars(Simple_Info(r)) /\ WF_vars(Fabric_Dir(r))
                      /\ WF_vars(Simple_Fabric(r)) /\ WF_vars(Finish(r))
  /\ WF_vars(Fabric_Removed)

\* ------------------------------------------- buildTagsFromText on its own
\* Texts buildTagsFromText is applied to: the first words of a text with
\* twelve different words of four letters or more, some of them repeated,
\* followed by up to MaxFree more symbols: blanks, punctuation, stop words in
\* either case, short words, a hyphen, words of the text again.
MaxFree == 3
TagCorpus ==
  << Word("firebase"), Word("transcript"), Word("video"), Word("firebase"), Word("caption"),
     Word("summary"), Word("video"), Word("language"), Word("youtube"), Word("model"),
     Word("cache"), Word("retry"), Word("fallback"), Word("firebase"), Word("adapter") >>
TagSymbols ==
  { SP, Punct, Word("that"), Upper("that"), Word("ai"), Word("-"), Upper("adapter"), Word("video") }
Tails(n) == UNION { [1..k -> TagSymbols] : k \in 0..n }
TagInputs ==
  { JoinSp(MapSeq(LAMBDA w : << w >>, SubSeq(TagCorpus, 1, n))) \o tail :
      n \in 0..Len(TagCorpus), tail \in Tails(MaxFree) }

InitTags ==
  /\ \E text \in TagInputs :
       req = [r \in Reqs |-> IF r \in OneAtATime THEN [IdleReq EXCEPT !.given = text] ELSE IdleReq]
  /\ answered = {} /\ calls = 0 /\ tmpDirs = NoTmpDirs
  /\ captions = [v \in Videos |-> TRUE]
  /\ videoTracks = [v \in Videos |-> <<>>]
  /\ transcripts = [v \in Videos |-> Absent]
  /\ summaries = [v \in Videos |-> Absent]
  /\ multilingual = [v \in Videos |-> Absent]

\* tags = buildTagsFromText(text)
BuildTags(r) ==
  /\ req[r].ep = "idle" /\ req[r].pc = "idle"
  /\ req' = [req EXCEPT ![r] = [@ EXCEPT !.ep = "tags", !.pc = "done",
                                          !.tags = buildTagsFromText(req[r].given)]]
  /\ UNCHANGED <<tmpDirs, captions, videoTracks, transcripts, summaries, multilingual, answered, calls>>

NextTags == \E r \in OneAtATime : BuildTags(r)

SpecTags == InitTags /\ [][NextTags]_vars

\* ------- /smart-transcript-v2 and /smart-summary-firebase-v2 on one store
\* Both endpoints write the 'transcripts' record of a video: the first the
\* whole record, the second its tags.  A request to /smart-transcript-v2
\* arrives.
StartV2(r) ==
  /\ Free(r) /\ calls < MaxCalls /\ calls' = calls + 1
  /\ \E url \in Urls : req' = [req EXCEPT ![r] = St2Start(NewReq("st2", url, NoLang, ""))]
  /\ UNCHANGED <<tmpDirs, captions, videoTracks, transcripts, summaries, multilingual, answered>>

NextShared ==
  \E r \in OneAtATime :
    \/ StartV2(r) \/ StartSummaryOf(r, { "sfb2" })
    \/ St2_Get(r) \/ St2_Info(r) \/ St2_Fabric(r) \/ St2_Subs(r) \/ St2_Set(r)
    \/ FetchTranscriptStep(r)
    \/ Fabric_Dir(r) \/ Fabric_Hangs(r) \/ Fabric_Removed
    \/ Sum_Get(r) \/ Sum_TGet(r) \/ Sum_Model(r) \/ Sum_Set(r) \/ Sum_TSet(r)
    \/ Finish(r)

SpecShared == Init /\ [][NextShared]_vars

\* ================================================================== claims
\* The three caption adapters of the fallback chain.
Adapters == { "fabricFetchTranscript", "getSubtitles", "fetchTranscript" }
AdapterCalls(q) == FilterSeq(LAMBDA e : e.ad \in Adapters, q.trace)
Failed(e) == e.res \in { "fail", "empty" }
\* The joined text adapter ad delivers for request q when it succeeds.
SubsText(q) == JoinSp(Texts(SubsLines(q.vid, q.sel)))

\* ---- C1
C1_Case(q) ==
  /\ Len(AdapterCalls(q)) >= 2
  /\ AdapterCalls(q)[1].res = "fail"
  /\ AdapterCalls(q)[2].res = "ok"

\* C1: in a request whose first adapter failed and whose second adapter
\* succeeded, no third adapter is ever invoked, the transcript of the request
\* is the second adapter's output, and a 200 answer carries exactly that text.
C1_SecondAdapterWins ==
  \A r \in Reqs :
    LET q == req[r] IN
    C1_Case(q) =>
      /\ Len(AdapterCalls(q)) = 2
      /\ AdapterCalls(q)[2].ad = "getSubtitles"
      /\ ~Invoked(q, "fetchTranscript")
      /\ q.text = SubsText(q)
      /\ (q.pc = "done" /\ q.status = 200) =>
           (q.body.data.transcript = SubsText(q) /\ "warning" \notin DOMAIN q.body.data)

\* C1 witness: such a request has been answered 200.
C1_Witness ==
  \E r \in Reqs : C1_Case(req[r]) /\ req[r].pc = "done" /\ req[r].status = 200

\* ---- C2
\* Every adapter the endpoint uses was asked and none gave a text.
Exhausted(q) ==
  /\ q.ep = "st2" /\ q.pc = "done"
  /\ Invoked(q, "fetchTranscript")
  /\ \A i \in 1..Len(AdapterCalls(q)) : AdapterCalls(q)[i].res # "pending"
  /\ ~Truthy(q.text)

\* C2: a request of the fallback chain whose adapters all failed or came back
\* empty is answered 404.
C2_ExhaustedIs404 ==
  \A r \in Reqs : Exhausted(req[r]) => req[r].status = 404

ChainOrder == << "fabricFetchTranscript", "getSubtitles", "fetchTranscript" >>
\* The order of the adapters as the claim states it.
StatedOrder == << "getSubtitles", "fabricFetchTranscript", "fetchTranscript" >>

\* C4 (as amended): when the selected caption track has a language code,
\* /smart-transcript-v2 asks yt-dlp, then getSubtitles, then fetchTranscript,
\* each only after every earlier one was asked and failed or came back empty;
\* when the track has no language code only fetchTranscript is asked.
C4_ChainOrder ==
  \A r \in Reqs :
    LET q == req[r]
        a == AdapterCalls(q)
    IN  q.ep = "st2" =>
          /\ Len(a) <= (IF Truthy(q.sel) THEN 3 ELSE 1)
          /\ \A i \in 1..Len(a) :
               /\ a[i].ad = (IF Truthy(q.sel) THEN ChainOrder[i] ELSE "fetchTranscript")
               /\ i < Len(a) => Failed(a[i])

\* C4 witness: a request that went through all three adapters.
C4_Witness ==
  \E r \in Reqs :
    req[r].ep = "st2" /\ req[r].pc = "done" /\ Len(AdapterCalls(req[r])) = 3

\* C4 (as stated): the adapters are asked in the order library, external
\* process, manual scrape, each only after every earlier one was asked and
\* failed.
C4_LibraryFirst ==
  \A r \in Reqs :
    LET q == req[r]
        a == AdapterCalls(q)
    IN  q.ep = "st2" =>
          \A i \in 1..Len(a) : a[i].ad = StatedOrder[i] /\ (i < Len(a) => Failed(a[i]))

\* ---- C5
\* The request is past its cache lookup.
LookedUp(q) == q.ep \in { "st", "st2" } /\ q.pc \notin { "idle", "get" }

V3Wrote(q) ==
  q.ep = "v3" /\ q.pc = "done" /\ q.status = 200 /\ Invoked(q, "fabricFetchTranscript")
HasLanguage(doc, language) ==
  doc.exists /\ \E i \in 1..Len(doc.transcript) : doc.transcript[i].language = language

\* C8: when two /simple-transcript-v3 requests for the same video have both
\* stored a language and been answered, the stored record holds the language
\* of each.
C8_NoLostLanguage ==
  \A r1 \in Reqs, r2 \in Reqs :
    (r1 # r2 /\ V3Wrote(req[r1]) /\ V3Wrote(req[r2]) /\ req[r1].vid = req[r2].vid) =>
      /\ HasLanguage(multilingual[req[r1].vid], req[r1].sel)
      /\ HasLanguage(multilingual[req[r1].vid], req[r2].sel)

\* ---- C9
\* C9: in every reachable state, the transcript array of a multilingual
\* record holds no two entries of the same language code.
C9_OneEntryPerLanguage ==
  \A v \in Videos :
    multilingual[v].exists =>
      \A i \in 1..Len(multilingual[v].transcript), j \in 1..Len(multilingual[v].transcript) :
        i # j => multilingual[v].transcript[i].language # multilingual[v].transcript[j].language

\* C9 witness: a record with several languages, one of them written while
\* another request for the video was still in flight.
C9_Witness ==
  \E v \in Videos, r \in Reqs :
    /\ multilingual[v].exists /\ Len(multilingual[v].transcript) >= 2
    /\ V3Wrote(req[r]) /\ req[r].vid = v
    /\ \E r2 \in Reqs : r2 # r /\ req[r2].ep = "v3" /\ req[r2].vid = v /\ req[r2].pc = "set"

\* ---- C10
\* C10: a /simple-transcript-v3 request that names a language is answered 200
\* only with that very language code, which is one of the video's caption
\* tracks; once the metadata is there and the language is no track of the
\* video, the request is answered 404.
C10_ExactLanguage ==
  \A r \in Reqs :
    LET q == req[r] IN
    (q.ep = "v3" /\ Truthy(q.lang)) =>
      /\ (q.pc = "done" /\ q.status = 200) =>
           /\ q.body.data.transcriptLanguageCode = q.lang
           /\ q.lang \in TrackCodes(videoTracks[q.vid])
      /\ (q.trace # <<>> /\ q.trace[1].res = "ok"
            /\ q.lang \notin TrackCodes(videoTracks[q.vid])) =>
           (q.pc = "done" /\ q.status = 404)

\* ---- C6
\* C6: once the summaries record of a video holds a non-empty summary, no
\* step of any smart-summary* request changes the stored summary.
C6_SummaryImmutable ==
  [][\A v \in Videos :
       (summaries[v].exists /\ Truthy(summaries[v].summary)) =>
         (summaries'[v].exists /\ summaries'[v].summary = summaries[v].summary)]_vars

\* ---- C7
SummaryEndpoints == { "sum", "sfb", "sfb2", "sfb3" }

\* C7: a smart-summary* request that has looked the video up is answered from
\* the cache exactly when the record it read exists and holds a non-empty
\* summary; then the answer is 200 with fromCache true and the stored
\* summary, and the model is never called. Otherwise, whether the record is
\* absent or lacks a summary, a 200 answer has fromCache false and comes
\* after a model call.
C7_CacheHitIffSummary ==
  \A r \in Reqs :
    LET q == req[r] IN
    (q.ep \in SummaryEndpoints /\ q.pc \notin { "idle", "get" }) =>
      /\ q.hit <=> (q.snap.exists /\ Truthy(q.snap.summary))
      /\ q.hit =>
           /\ q.pc = "done" /\ q.status = 200 /\ q.trace = <<>>
           /\ q.body.data = [summary |-> q.snap.summary, fromCache |-> TRUE]
      /\ (~q.hit /\ q.pc = "done" /\ q.status = 200) =>
           (~q.body.data.fromCache /\ Invoked(q, "model"))

\* C7 witness: a request found a record without a summary, called the model
\* and was answered 200 with fromCache false.
C7_Witness ==
  \E r \in Reqs :
    LET q == req[r] IN
    /\ q.ep \in SummaryEndpoints /\ q.pc = "done" /\ q.status = 200
    /\ q.snap.exists /\ ~Truthy(q.snap.summary)
    /\ Invoked(q, "model") /\ ~q.body.data.fromCache

\* ---- C11
\* The track the stated preference picks: the first English track that is not
\* auto-generated, else the first English track, else the first track.
StatedDefault(tracks) ==
  LET manual == { i \in 1..Len(tracks) :
                    StartsWith(tracks[i].languageCode, en) /\ tracks[i].kind # "asr" }
      english == { i \in 1..Len(tracks) : StartsWith(tracks[i].languageCode, en) }
      first(set) == CHOOSE i \in set : \A j \in set : i <= j
  IN  IF manual # {} THEN tracks[first(manual)]
      ELSE IF english # {} THEN tracks[first(english)]
      ELSE tracks[1]

\* C11: a /simple-transcript-v3 or /simple-transcript-v2 request that names no
\* language and is answered 200 reports the language code of the track the
\* stated preference picks, and the transcript it returns was fetched in that
\* language.
C11_DefaultTrack ==
  \A r \in Reqs :
    LET q == req[r] IN
    (q.ep \in { "v3", "s2" } /\ ~Truthy(q.lang) /\ q.pc = "done" /\ q.status = 200) =>
      /\ q.body.data.transcriptLanguageCode = StatedDefault(videoTracks[q.vid]).languageCode
      /\ q.sel = q.body.data.transcriptLanguageCode

\* ---- C16
\* The adapter call of the request is past tmp.dir and has not ended.
InAdapter(q) == q.pc \in { "ytdlp", "hung" }
\* The last adapter call of the request was fabricFetchTranscript and is over.
FabricOver(q, res) ==
  /\ q.trace # <<>> /\ q.pc \notin { "fabric", "ytdlp", "hung" }
  /\ \E i \in 1..Len(q.trace) :
       q.trace[i].ad = "fabricFetchTranscript" /\ q.trace[i].res = res

TranscriptEndpoints == { "api", "tr", "simple", "s2", "v3", "st", "st2" }
\* The metadata of the video was fetched: by the handler itself or, for
\* GET /api/transcript, by the last fetcher of fetchTranscript.
GotMetadata(q) ==
  IF q.ep = "api"
    THEN \E i \in 1..Len(q.ftTrace) :
           q.ftTrace[i] = [src |-> "getBasicInfo", phase |-> "legacy", res |-> "ok"]
  ELSE \E i \in 1..Len(q.trace) : q.trace[i] = [ad |-> "getBasicInfo", res |-> "ok"]

\* C12: a request to a transcript endpoint for a video without caption tracks
\* (no captions section in the metadata, or an empty track list), once the
\* metadata has been fetched, is answered 404.
C12_NoCaptionsIs404 ==
  \A r \in Reqs :
    LET q == req[r] IN
    (q.ep \in TranscriptEndpoints /\ q.vid \in Videos /\ GotMetadata(q)
       /\ Len(videoTracks[q.vid]) = 0) =>
      (q.pc = "done" /\ q.status = 404)

\* ---- C13
\* The request is inside postWithRetry.
InPostWithRetry(q) == q.ep = "sfb3" /\ q.pc \in { "model", "backoff" }

\* C13: a call of postWithRetry makes at most maxAttempts attempts; an attempt
\* is followed by another one only if it failed with a status in 429, 500,
\* 502, 503, 504, so a 200 answer is the last attempt; a call that is left
\* returned that 200 answer or threw (answered 502); and every call is left.
C13_BoundedRetry ==
  /\ [](\A r \in Reqs :
          LET q == req[r] IN
          q.ep = "sfb3" =>
            /\ Len(q.attempts) <= MaxAttempts /\ q.tries <= MaxAttempts
            /\ \A i \in 1..(Len(q.attempts) - 1) : q.attempts[i] \in RETRYABLE_STATUS_CODES
            /\ (q.tries > Len(q.attempts)) =>
                 (q.pc = "model" /\ q.tries = Len(q.attempts) + 1)
            /\ (q.attempts # <<>> /\ ~InPostWithRetry(q)) =>
                 \/ q.attempts[Len(q.attempts)] = 200
                 \/ q.pc = "done" /\ q.status = 502)
  /\ \A r \in Reqs : InPostWithRetry(req[r]) ~> ~InPostWithRetry(req[r])

\* C13 witness: a call that used all its attempts and threw.
C13_Witness ==
  \E r \in Reqs :
    /\ req[r].ep = "sfb3" /\ req[r].pc = "done" /\ req[r].status = 502
    /\ req[r].attempts = << 503, 503, 503 >>

\* ---- C14
\* A failure that is not to be retried: a status outside the retryable ones,
\* or no status at all (0: a network error, a timeout).
NotRetryable(status) == status # 200 /\ (status = 0 \/ status \notin RETRYABLE_STATUS_CODES)

\* C14: in every smart-summary* request, a model attempt that fails with a
\* non-retryable status or without a status is the last attempt: the request
\* is answered with an error in the same step and no delay follows it; when
\* it is the first attempt, it is the only one and no delay was waited at all.
C14_FailsAtOnce ==
  \A r \in Reqs :
    LET q == req[r] IN
    q.ep \in SummaryEndpoints =>
      \A i \in 1..Len(q.attempts) :
        NotRetryable(q.attempts[i]) =>
          /\ i = Len(q.attempts) /\ q.tries = i
          /\ q.pc = "done" /\ q.status >= 500
          /\ Len(q.delays) = i - 1
          /\ i = 1 => q.delays = <<>>

\* C14 witness: a /smart-summary-firebase-v3 request whose only attempt failed
\* without a status.
C14_Witness ==
  \E r \in Reqs :
    req[r].ep = "sfb3" /\ req[r].attempts = << 0 >> /\ req[r].pc = "done" /\ req[r].delays = <<>>

\* ---- C15
RECURSIVE SumSeq(_)
SumSeq(seq) == IF Len(seq) = 0 THEN 0 ELSE seq[1] + SumSeq(Tail(seq))

\* C15: in postWithRetry the k-th delay is baseDelay * 2^(k-1) and there is
\* one delay for each failed attempt that was retried; when the model
\* endpoint answered 503, 503 and 200, the call returned on its third attempt
\* and the delays waited add up to baseDelay + 2 * baseDelay.
C15_Backoff ==
  \A r \in Reqs :
    LET q == req[r] IN
    q.ep = "sfb3" =>
      /\ \A k \in 1..Len(q.delays) :
           /\ q.delays[k] = BaseDelayMs * 2 ^ (k - 1)
           /\ k <= Len(q.attempts) /\ q.attempts[k] \in RETRYABLE_STATUS_CODES
      /\ q.tries > 0 => Len(q.delays) = (IF q.pc = "backoff" THEN q.tries ELSE q.tries - 1)
      /\ q.attempts = << 503, 503, 200 >> =>
           /\ q.tries = 3 /\ ~InPostWithRetry(q) /\ q.status # 502
           /\ SumSeq(q.delays) >= BaseDelayMs + 2 * BaseDelayMs

\* C15 witness: the model endpoint answered 503, 503 and 200 and the request
\* was answered 200.
C15_Witness ==
  \E r \in Reqs :
    /\ req[r].ep = "sfb3" /\ req[r].attempts = << 503, 503, 200 >>
    /\ req[r].pc = "done" /\ req[r].status = 200

\* ---- C17
\* C17: a request in which a Firestore read or write failed is answered 500.
C17_StoreFailureIs500 ==
  \A r \in Reqs : (req[r].storeFailed /\ req[r].pc = "done") => req[r].status = 500

\* ---- C18
\* C18: a request that is answered with an error has made no write to any
\* collection.
C18_NoPartialWrite ==
  \A r \in Reqs : (req[r].pc = "done" /\ req[r].status >= 400) => req[r].wrote = {}

\* ---- C19
\* C19: a request whose metadata fetch reported a private video is answered
\* 403, has called no caption adapter and has written nothing.
C19_PrivateIs403 ==
  \A r \in Reqs :
    LET q == req[r] IN
    MentionsPrivate(q.infoErr) =>
      /\ q.pc = "done" /\ q.status = 403
      /\ AdapterCalls(q) = <<>> /\ q.wrote = {}

\* ---- C20
\* C20: a request to an endpoint that takes a url, with a url that holds no
\* video id, is answered 400 in the first step of its handler: before any
\* store access, metadata fetch or adapter call.
C20_InvalidUrlIs400 ==
  \A r \in Reqs :
    LET q == req[r] IN
    (q.ep \notin { "idle", "api" } /\ q.url = BadUrl) =>
      /\ q.pc = "done" /\ q.status = 400
      /\ q.trace = <<>> /\ q.ftTrace = <<>> /\ ~q.hit /\ ~q.storeFailed /\ q.wrote = {}

\* ---- C21
\* The request found no summary in 'summaries': its lookup succeeded and missed.
NoCachedSummary(q) ==
  /\ q.ep \in SummaryEndpoints /\ q.url \in Videos
  /\ q.pc \notin { "idle", "get" } /\ ~q.hit /\ ~q.storeFailed

\* C21: a smart-summary* request that found no cached summary and names a
\* model that is not configured is answered 400, whatever the transcripts
\* record and the transcript fetch give, and the model endpoint is not called.
C21_InvalidModelIs400 ==
  \A r \in Reqs :
    LET q == req[r] IN
    (NoCachedSummary(q) /\ q.model \notin ValidModels /\ q.pc = "done") =>
      /\ q.status = 400
      /\ \A i \in 1..Len(q.trace) : q.trace[i].ad # "model"

\* ---- C22
\* The language a caption line was fetched for: captions are symbols
\* <<source, video>> \o language.
LineLanguage(item) == SubSeq(item.text[1], 3, Len(item.text[1]))

\* C22: in a 200 answer of POST /transcript every caption language of the
\* video is a key of `transcripts`, and the lines under a key are lines that
\* were fetched for the language of that key.
C22_PerLanguageTranscripts ==
  \A r \in Reqs :
    LET q == req[r] IN
    (q.ep = "tr" /\ q.pc = "done" /\ q.status = 200) =>
      LET t == q.body.data.transcripts IN
      /\ DOMAIN t = TrackCodes(videoTracks[q.vid])
      /\ \A code \in DOMAIN t : \A i \in 1..Len(t[code].custom) :
           Truthy(t[code].custom[i].text) => LineLanguage(t[code].custom[i]) = code

\* ---- C23
\* C23: every answer with a status of 400 or more has a JSON body with a
\* `message` field.
C23_ErrorHasMessage ==
  \A r \in Reqs :
    (req[r].pc = "done" /\ req[r].status >= 400) => req[r].body.message # ""

\* ---- C24
\* Two requests differ at most in the diagnostic content of the failures of
\* their collaborators: the same endpoint and request body, the same records
\* read, the same collaborators called with the same kind of result, the same
\* sequence of statuses from the model endpoint.
SameButDiagnostics(p, q) ==
  /\ p.ep = q.ep /\ p.url = q.url /\ p.lang = q.lang /\ p.model = q.model /\ p.given = q.given
  /\ p.snap = q.snap /\ p.meta = q.meta /\ p.hit = q.hit /\ p.storeFailed = q.storeFailed
  /\ p.trace = q.trace /\ p.attempts = q.attempts

\* C24: the answer to a failed request does not depend on the diagnostic
\* content of a collaborator's failure: two requests answered with an error
\* that differ at most in that content get the same status and the same body.
C24_NoDiagnosticsInBody ==
  \A r1, r2 \in Reqs :
    LET p == req[r1]
        q == req[r2]
    IN  (p.pc = "done" /\ q.pc = "done" /\ p.status >= 400 /\ q.status >= 400
           /\ SameButDiagnostics(p, q)) =>
          (p.status = q.status /\ p.body = q.body)

\* ---- C25
\* C25: a /simple-transcript-v2 request that names a language, for a video
\* whose metadata was fetched and has a captions section, is answered 200 with
\* the transcript fetched in that language and that language as
\* transcriptLanguageCode when a caption track has that code, and 404 when none
\* has.
C25_RequestedLanguage ==
  \A r \in Reqs :
    LET q == req[r] IN
    (q.ep = "s2" /\ Truthy(q.lang) /\ q.pc = "done" /\ q.vid \in Videos
       /\ GotMetadata(q) /\ captions[q.vid]) =>
      IF q.lang \in TrackCodes(videoTracks[q.vid])
        THEN /\ q.status = 200
             /\ q.body.data.transcriptLanguageCode = q.lang
             /\ Invoked(q, "fetchTranscript") /\ q.ftLang = q.lang
      ELSE q.status = 404

\* ---- C26
\* C26: the list buildTagsFromText returns has at most 10 entries, each of
\* them a token of four characters or more that is no stop word, and no entry
\* occurs twice.
C26_TagList ==
  \A r \in Reqs :
    (req[r].ep = "tags" /\ req[r].pc = "done") =>
      LET tags == req[r].tags IN
      /\ Len(tags) <= 10
      /\ \A i \in 1..Len(tags) :
           /\ IsWord(tags[i]) /\ tags[i][3] = "lower"
           /\ tags[i][2] \notin stopwords /\ Len(tags[i][2]) >= 4
      /\ \A i, j \in 1..Len(tags) : i # j => tags[i] # tags[j]

\* C26 witness: a text with more than ten different words of four letters or
\* more, repeated words, a stop word in capitals and a short word has given
\* ten tags, the most frequent word first.
C26_Witness ==
  \E r \in Reqs :
    LET q == req[r] IN
    /\ q.ep = "tags" /\ q.pc = "done"
    /\ Len(q.given) = 2 * Len(TagCorpus) - 1 + 3
    /\ SubSeq(q.given, 2 * Len(TagCorpus), Len(q.given)) = << SP, Upper("that"), Word("ai") >>
    /\ Len(q.tags) = 10 /\ q.tags[1] = Word("firebase") /\ q.tags[2] = Word("video")

\* ---- C27
\* The fields of a transcripts record the summary flows may not touch.
Untagged(doc) == [f \in (DOMAIN doc) \ { "tags", "hasTags" } |-> doc[f]]

\* C27: no step of a smart-summary* request creates or deletes a transcripts
\* record or changes a field of it other than the tags.
C27_TagsOnly ==
  [][\A v \in Videos :
       /\ transcripts'[v].exists = transcripts[v].exists
       /\ Untagged(transcripts'[v]) = Untagged(transcripts[v])]_vars

\* C27 witness: a /smart-summary-firebase-v2 request has written the tags of
\* the model's answer into a transcripts record that had none.
C27_Witness ==
  \E r \in Reqs :
    LET q == req[r] IN
    /\ q.ep = "sfb2" /\ q.pc = "done" /\ q.status = 200 /\ "transcripts" \in q.wrote
    /\ ~q.meta.hasTags /\ q.tags = << Word("pets") >>
    /\ transcripts[q.vid].tags = q.tags /\ Truthy(transcripts[q.vid].transcript)

\* ---- C28
\* The adapter calls of a request that are in flight.
InFlight(q) == { i \in 1..Len(q.trace) : q.trace[i].res = "pending" }

\* C28: in every request at most one collaborator call is in flight, and it is
\* the one started last: each call was started after the calls before it had
\* completed.  While fetchTranscript asks its sources one after the other, it
\* is the call in flight.
C28_OneAdapterAtATime ==
  \A r \in Reqs :
    LET q == req[r] IN
    /\ InFlight(q) \subseteq { Len(q.trace) }
    /\ q.pc = "done" => InFlight(q) = {}
    /\ q.pc \in { "p_lib", "p_info", "p_get", "p_json", "l_lib", "l_info", "l_get" } =>
         (InFlight(q) # {} /\ q.trace[Len(q.trace)].ad = "fetchTranscript")

\* C28 witness: in a /smart-transcript-v2 request the yt-dlp adapter and
\* getSubtitles have failed one after the other and fetchTranscript is in
\* flight, the third call of the chain.
C28_Witness ==
  \E r \in Reqs :
    LET q == req[r] IN
    /\ q.ep = "st2" /\ Len(q.trace) >= 3 /\ InFlight(q) = { Len(q.trace) }
    /\ q.trace[Len(q.trace)].ad = "fetchTranscript"
    /\ q.trace[Len(q.trace) - 1] = [ad |-> "getSubtitles", res |-> "fail"]
    /\ q.trace[Len(q.trace) - 2] = [ad |-> "fabricFetchTranscript", res |-> "fail"]

\* ---- C29
\* C29: every call of fabricFetchTranscript that has started ends, so that
\* the request that made it is answered.
C29_SubprocessEnds ==
  \A r \in Reqs : (req[r].pc \in { "fabric", "ytdlp" }) ~> (req[r].pc = "done")

\* ------------------------------------------------------------------- C30
\* fetchTranscriptPrimary has thrown: fetchTranscript's catch has started the
\* legacy fetcher.
PrimaryThrew(q) ==
  q.pc = "l_lib" \/ \E i \in 1..Len(q.ftTrace) : q.ftTrace[i].phase = "legacy"
\* fetchTranscriptPrimary has returned `lines` to the code that awaited
\* fetchTranscript.
PrimaryReturned(q, lines) ==
  /\ ~PrimaryThrew(q)
  /\ q.pc \notin { "p_lib", "p_info", "p_get", "p_json" }
  /\ q.text = JoinSp(Texts(lines))
JsonRequested(q) ==
  \E i \in 1..Len(q.ftTrace) : q.ftTrace[i].src = "signedUrlJson"

\* C30: fetchTranscriptPrimary parses the answer of the signed URL as XML
\* first; the json3 request is made only after an XML parse that gave zero
\* lines, and directly after it. XML lines, when there are any, are what is
\* returned; json3 lines are returned when the XML gave none and json3 gave
\* some; when both gave none, or the json3 request failed, fetchTranscriptPrimary
\* throws.
C30_XmlThenJson ==
  \A r \in Reqs :
    LET q == req[r]
        n == Len(q.ftTrace)
        xmlNone == q.xml = "parsed" /\ Len(q.lines) = 0
    IN  /\ \A i \in 1..n :
             q.ftTrace[i].src = "signedUrlJson" =>
               /\ i > 1
               /\ q.ftTrace[i - 1] = [src |-> "signedUrl", phase |-> "primary", res |-> "ok"]
               /\ xmlNone
        /\ (q.json # "none") => JsonRequested(q)
        /\ (q.xml = "parsed" /\ Len(q.lines) > 0) => PrimaryReturned(q, q.lines)
        /\ (xmlNone /\ q.json = "parsed" /\ Len(q.jsonLines) > 0) =>
             PrimaryReturned(q, q.jsonLines)
        /\ (xmlNone /\ (q.json = "fail" \/ (q.json = "parsed" /\ Len(q.jsonLines) = 0))) =>
             PrimaryThrew(q)

\* GET /api/transcript has answered 200 with json3 lines, asked for after an
\* XML parse without lines.
C30_Witness ==
  \E r \in Reqs :
    /\ req[r].ep = "api" /\ req[r].pc = "done" /\ req[r].status = 200
    /\ req[r].xml = "parsed" /\ Len(req[r].lines) = 0
    /\ req[r].json = "parsed" /\ Len(req[r].jsonLines) > 0
    /\ req[r].body.data.captions = req[r].jsonLines

\* ------------------------------------------------------------------- C31
\* C31: a call of fabricFetchTranscript never ends as a success with an empty
\* text: when no subtitle file was produced, or the text made from the
\* produced file is empty, the call throws.
C31_EmptyIsFailure ==
  \A r \in Reqs : \A i \in 1..Len(req[r].trace) :
    req[r].trace[i].ad = "fabricFetchTranscript" => req[r].trace[i].res # "empty"

\* ------------------------------------------------------------------- C32
\* The invariant of a caption line: times not negative, a text that is not
\* empty once trimmed.
ValidLine(ln) == ln.start >= 0 /\ ln.dur >= 0 /\ Truthy(Trim(ln.text))
ValidLines(lines) == \A i \in 1..Len(lines) : ValidLine(lines[i])

\* C32: every line that parseTranscriptXml or parseTranscriptJson3 has
\* returned, and every line GET /api/transcript answers with, has start >= 0,
\* dur >= 0 and a text that is not empty after trimming.
C32_ValidLines ==
  \A r \in Reqs :
    LET q == req[r] IN
    /\ ValidLines(q.lines)
    /\ ValidLines(q.jsonLines)
    /\ (q.ep = "api" /\ q.pc = "done" /\ q.status = 200) => ValidLines(q.body.data.captions)

\* ------------------------------------------------------------------- C33
\* d is the whole number of minutes in `seconds`.
FloorMinutes(d, seconds) == 60 * d <= seconds /\ seconds < 60 * (d + 1)
NothingPending(q) == \A i \in 1..Len(q.trace) : q.trace[i].res # "pending"
\* The record of video v in the collection the endpoint caches in.
CacheRecord(ep, v, tr, ml) == IF ep = "v3" THEN ml[v] ELSE tr[v]
\* A request that found no record at its lookup and was answered 200.
MissAnswered(q) ==
  q.ep \in { "st", "st2", "v3" } /\ q.pc = "done" /\ q.status = 200 /\ ~q.hit

\* A step in which request r writes its cache: it is the request's first
\* write, no caption source is still running, the response is sent in the
\* same step (so no second write can follow), and the record now holds the
\* duration that is returned.
CacheWrite(r) ==
  /\ req[r].wrote = {} /\ req[r].pc = "set" /\ NothingPending(req[r])
  /\ req'[r].pc = "done" /\ req'[r].status = 200
  /\ CacheRecord(req[r].ep, req[r].vid, transcripts', multilingual').duration
       = req'[r].body.data.duration

\* C33: a request for an uncached video that is answered 200 has written its
\* cache exactly once, in a step after its last caption source has ended and
\* that ends with the response, and the duration stored and returned is
\* floor(lengthSeconds / 60).
C33_WriteOnce ==
  /\ [](\A r \in Reqs :
          MissAnswered(req[r]) =>
            /\ Cardinality(req[r].wrote) = 1
            /\ NothingPending(req[r])
            /\ FloorMinutes(req[r].body.data.duration, LengthSeconds(req[r].vid)))
  /\ [][ /\ \A r \in Reqs : (req'[r].wrote \ req[r].wrote # {}) => CacheWrite(r)
         /\ (transcripts' # transcripts \/ multilingual' # multilingual) =>
              \E r \in Reqs : req'[r].wrote \ req[r].wrote # {} ]_vars

\* /smart-transcript-v2 has answered 200 for a video of 125 seconds that was
\* not cached: the record and the answer hold a duration of 2.
C33_Witness ==
  \E r \in Reqs :
    /\ MissAnswered(req[r]) /\ req[r].ep = "st2" /\ Truthy(req[r].text)
    /\ req[r].wrote = { "transcripts" }
    /\ LengthSeconds(req[r].vid) = 125
    /\ req[r].body.data.duration = 2 /\ transcripts[req[r].vid].duration = 2

\* ------------------------------------------------------------------- C34
\* The admissible tokens of a text, in the order they occur.
Admissible(text) ==
  FilterSeq(KeepWord, SplitWords([i \in 1..Len(text) |-> toLowerCase(text[i])], ""))
Occurrences(w, tokens) == Cardinality({ i \in 1..Len(tokens) : tokens[i] = w })
FirstAt(w, tokens) == CHOOSE i \in 1..Len(tokens) : tokens[i] = w /\ \A j \in 1..(i - 1) : tokens[j] # w
\* Token a ranks before token b: it occurs more often, or as often and earlier.
RanksBefore(a, b, tokens) ==
  \/ Occurrences(a, tokens) > Occurrences(b, tokens)
  \/ Occurrences(a, tokens) = Occurrences(b, tokens) /\ FirstAt(a, tokens) < FirstAt(b, tokens)

\* C34: the tags are the ten admissible tokens that occur most often (all of
\* them when there are fewer than ten different ones), in descending order of
\* their count, tokens of equal count in the order of their first occurrence.
C34_TopTen ==
  \A r \in Reqs :
    (req[r].ep = "tags" /\ req[r].pc = "done") =>
      LET tags == req[r].tags
          tokens == Admissible(req[r].given)
          different == { tokens[i] : i \in 1..Len(tokens) }
      IN  /\ Len(tags) = IF Cardinality(different) < 10 THEN Cardinality(different) ELSE 10
          /\ \A i \in 1..Len(tags) : tags[i] \in different
          /\ \A i, j \in 1..Len(tags) : i < j => RanksBefore(tags[i], tags[j], tokens)
          /\ \A w \in different :
               (\A i \in 1..Len(tags) : tags[i] # w) =>
                 \A i \in 1..Len(tags) : RanksBefore(tags[i], w, tokens)

\* A text with more than ten different admissible tokens in which two tokens
\* occur three times each: they are the first two tags, the one met first
\* before the other, and a token that occurs once is left out.
C34_Witness ==
  \E r \in Reqs :
    LET tokens == Admissible(req[r].given) IN
    /\ req[r].ep = "tags" /\ req[r].pc = "done"
    /\ Cardinality({ tokens[i] : i \in 1..Len(tokens) }) > 10
    /\ Occurrences(Word("firebase"), tokens) = 3 /\ Occurrences(Word("video"), tokens) = 3
    /\ req[r].tags[1] = Word("firebase") /\ req[r].tags[2] = Word("video")
    /\ Len(req[r].tags) = 10

\* ------------------------------------------------------------------- C35
\* The metadata read from the transcripts record has a tag list with entries.
HasTags(meta) == meta.hasTags /\ Len(meta.tags) > 0
\* A /smart-summary-firebase-v3 request whose model call gave a summary.
Sfb3Summarised(q) ==
  q.ep = "sfb3" /\ (q.pc = "set" \/ (q.pc = "done" /\ q.status = 200 /\ ~q.hit))
TagSource(meta, summary) == JoinSp(FilterSeq(Truthy, << meta.title, Description(meta), summary >>))

\* C35: in /smart-summary-firebase-v3 the tags of the front matter and of the
\* summaries record are the tags of the transcripts record, in their order,
\* when it has any; they are built from title, description and summary only
\* when it has none.
C35_TagsKept ==
  /\ [](\A r \in Reqs :
          LET q == req[r]
              fm == Frontmatter("sfb3", q.meta, q.tags)
          IN  Sfb3Summarised(q) =>
                /\ Len(q.text) >= Len(fm) /\ SubSeq(q.text, 1, Len(fm)) = fm
                /\ IF HasTags(q.meta) THEN q.tags = q.meta.tags
                   ELSE q.tags = buildTagsFromText(
                          TagSource(q.meta, SubSeq(q.text, Len(fm) + 1, Len(q.text)))))
  /\ [][\A r \in Reqs :
          (req[r].ep = "sfb3" /\ "summaries" \in req'[r].wrote \ req[r].wrote) =>
            /\ summaries'[req[r].vid].tags = req[r].tags
            /\ HasTags(req[r].meta) => summaries'[req[r].vid].tags = req[r].meta.tags]_vars

\* /smart-summary-firebase-v3 has answered 200 for a video whose transcripts
\* record has tags, and the summaries record holds these tags, which are not
\* the ones the text would have given.
C35_Witness ==
  \E r \in Reqs :
    LET q == req[r] IN
    /\ Sfb3Summarised(q) /\ q.pc = "done" /\ "summaries" \in q.wrote
    /\ HasTags(q.meta) /\ summaries[q.vid].tags = q.meta.tags
    /\ LET fm == Frontmatter("sfb3", q.meta, q.tags) IN
       q.meta.tags # buildTagsFromText(TagSource(q.meta, SubSeq(q.text, Len(fm) + 1, Len(q.text))))

\* ------------------------------------------------------------------- C36
\* The source a trace entry of fetchTranscript names; the json3 request goes
\* to the signed URL too.
SourceOf(e) == IF e.src = "signedUrlJson" THEN "signedUrl" ELSE e.src
\* Calls i and j of a fetchTranscript call go to the same source, and j is not
\* the json3 retry that follows a successful request of the signed URL.
SameSourceAgain(t, i, j) ==
  /\ i < j /\ SourceOf(t[i]) = SourceOf(t[j])
  /\ ~(t[j].src = "signedUrlJson" /\ t[j].phase = t[i].phase)

\* C36: within one fetchTranscript call the library, the metadata fetch and
\* the signed URL are each asked at most once; a source that has failed in
\* the call is not asked again.
C36_EachSourceOnce ==
  \A r \in Reqs :
    \A i, j \in 1..Len(req[r].ftTrace) : ~SameSourceAgain(req[r].ftTrace, i, j)

\* ------------------------------------------------------------------- C37
\* C37: a 200 answer of POST /smart-transcript carries a transcript that is
\* not empty, whatever /smart-transcript and /smart-transcript-v2 requests
\* came before it.
C37_NoEmptyHit ==
  \A r \in Reqs :
    (req[r].ep = "st" /\ req[r].pc = "done" /\ req[r].status = 200) =>
      Truthy(req[r].body.data.transcript)

\* ------------------------------------------------------------------- C38
\* C38: every entry of the transcript array of a 'transcripts-multilingual'
\* record holds a transcript text that is not empty.
C38_NoEmptyEntry ==
  \A v \in Videos :
    multilingual[v].exists =>
      \A i \in 1..Len(multilingual[v].transcript) :
        Truthy(multilingual[v].transcript[i].transcript)

\* ------------------------------------------------------------------- C39
\* A smart-summary* request that is over and whose model call returned no
\* summary text: 200 with an empty summary, or the 500 of -v2 and -v3.
NoSummaryReturned(q) ==
  /\ q.ep \in { "sum", "sfb", "sfb2", "sfb3" } /\ q.pc = "done" /\ ~q.hit
  /\ \/ q.status = 200 /\ ~Truthy(q.body.data.summary)
     \/ q.status = 500 /\ q.body.message = "Model did not return a summary"

\* C39: every step that changes a summaries record leaves it with a summary
\* that is not empty, and a request whose model call returned no summary text
\* has written nothing.
C39_SummaryNotEmpty ==
  /\ [](\A r \in Reqs : NoSummaryReturned(req[r]) => req[r].wrote = {})
  /\ [][\A v \in Videos :
          summaries'[v] # summaries[v] =>
            summaries'[v].exists /\ Truthy(summaries'[v].summary)]_vars

\* One request has stored a summary, and another, which found no summary at
\* its lookup and whose model call returned no summary text, has been
\* answered without a write.
C39_Witness ==
  \E r1, r2 \in Reqs :
    /\ req[r1].pc = "done" /\ req[r1].status = 200 /\ "summaries" \in req[r1].wrote
    /\ Truthy(summaries[req[r1].vid].summary)
    /\ NoSummaryReturned(req[r2]) /\ req[r2].status = 200 /\ req[r2].wrote = {}
    /\ ~SummaryCacheHit(req[r2].snap)

\* ------------------------------------------------------------------- C40
\* The record holds tags that /smart-summary-firebase-v2 merged into it: a
\* list the model endpoint returned, with entries.
MergedTags(doc) == doc.exists /\ doc.hasTags /\ doc.tags \in ModelTags /\ Len(doc.tags) > 0

\* C40: once /smart-summary-firebase-v2 has merged tags into the transcripts
\* record of a video, no step of a /smart-transcript-v2 request changes the
\* tags of that record.
C40_TagsStay ==
  [][\A v \in Videos :
       (MergedTags(transcripts[v]) /\ \E r \in Reqs : req[r].ep = "st2" /\ req'[r] # req[r]) =>
         /\ transcripts'[v].exists
         /\ transcripts'[v].tags = transcripts[v].tags]_vars

====
